---- MODULE Spec2Model ----
(***************************************************************************)
(* The Peripheral: the aggregation core behind the HTTP API                *)
(* (src/api/main.py), the cloud tool server (src/mcp/cloud_server.py) and  *)
(* the horizon tool server (src/mcp/horizon_server.py).                    *)
(*                                                                         *)
(* Python values are modelled as follows.                                  *)
(*   str    a sequence of code points (Naturals), so that slicing,         *)
(*          lower(), startswith() and the ordering of strings are          *)
(*          computed and not assumed;                                      *)
(*   None   a nullable value v is the empty sequence None when it is       *)
(*          null and the one-element sequence Some(x) when it is x;        *)
(*   dict   a function whose DOMAIN is the set of keys present;            *)
(*   list   a sequence.                                                    *)
(***************************************************************************)
EXTENDS Integers, Sequences, FiniteSets, TLC

VARIABLES
    hours,        \* Access Tier Gate: the requested lookback
    gate_out,     \* Access Tier Gate: None until run, then Some(_enforce_free_tier(hours))
    gate_again,   \* Access Tier Gate: None until run, then Some(the gate applied to gate_out's hours)
    signals,      \* Timeline Aggregator: result.data, the signal rows the store returned
    timeline_out, \* Timeline Aggregator: None until run, then Some(the aggregates of the response)
    name,         \* Relevance Ranker: the query of search_entities
    results,      \* Relevance Ranker: the merged hits, in the order they were appended
    ranked,       \* Relevance Ranker: None until run, then Some(results after results.sort)
    call,         \* handlers: None while idle, then Some(the invocation: front end, handler, arguments)
    store,        \* handlers: what the store did for this invocation: the rows of each read,
                  \*   the reads that fail (by position), whether the usage-log insert succeeds
    trace,        \* handlers: the store calls issued, in order: reads, rpcs, usage-log inserts
    response,     \* handlers: None, or Some(what the caller received)
    raised,       \* handlers: TRUE when an exception left the handler
    reference,    \* handlers: the response of the same invocation with the usage-log insert succeeding
    threads,      \* concurrent invocations: of each its arguments, its position and its locals
    workers,      \* server: how many invocations it runs at a time
    inflight,     \* server: the invocations inside their handler, in the order they entered:
                  \*   of each its arguments, what the store does for it, the store calls it
                  \*   has issued so far
    usage_log     \* server: the rows of mcp_usage_log, in the order they were inserted

gateVars == <<hours, gate_out, gate_again>>
timelineVars == <<signals, timeline_out>>
rankerVars == <<name, results, ranked>>
toolVars == <<call, store, trace, response, raised, reference>>
serverVars == <<workers, inflight, usage_log>>
vars == <<gateVars, timelineVars, rankerVars, toolVars, threads, serverVars>>

\* the variables of the other components, which a component's steps leave alone
notGateVars == <<timelineVars, rankerVars, toolVars, threads, serverVars>>
notTimelineVars == <<gateVars, rankerVars, toolVars, threads, serverVars>>
notRankerVars == <<gateVars, timelineVars, toolVars, threads, serverVars>>
notToolVars == <<gateVars, timelineVars, rankerVars, threads, serverVars>>

\* no concurrent invocations: the specifications of one invocation at a time
ThreadsIdle == threads = <<>>

\* a server that runs one invocation at a time, with none inside a handler
ServerIdle ==
    /\ workers = 1
    /\ inflight = <<>>
    /\ usage_log = <<>>

-----------------------------------------------------------------------------
(* Python values *)

None == <<>>
Some(x) == <<x>>

\* str(n) of an int: its decimal digits as code points, "-" first when negative
RECURSIVE Digits(_)
Digits(n) ==
    IF n < 0 THEN <<45>> \o Digits(0 - n)
    ELSE IF n < 10 THEN <<48 + n>>
    ELSE Digits(n \div 10) \o <<48 + (n % 10)>>

\* sub in s, for strings
Contains(s, sub) ==
    \E i \in 1..(Len(s) + 1) :
        /\ i + Len(sub) - 1 <= Len(s)
        /\ SubSeq(s, i, i + Len(sub) - 1) = sub

-----------------------------------------------------------------------------
(* Access Tier Gate *)

FREE_TIER_MAX_HOURS == 720

\* "Free tier limited to "
MsgLimited == <<70, 114, 101, 101, 32, 116, 105, 101, 114, 32, 108, 105, 109, 105, 116, 101, 100, 32, 116, 111, 32>>
\* "h (30 days). Requested "
MsgRequested == <<104, 32, 40, 51, 48, 32, 100, 97, 121, 115, 41, 46, 32, 82, 101, 113, 117, 101, 115, 116, 101, 100, 32>>
\* "h was clamped."
MsgClamped == <<104, 32, 119, 97, 115, 32, 99, 108, 97, 109, 112, 101, 100, 46>>

\* a plausible slip: the advisory names the ceiling and leaves the request out
Mutant_GatingMessage_no_request(h) ==
    MsgLimited \o Digits(FREE_TIER_MAX_HOURS) \o MsgRequested \o MsgClamped

\* the f-string of the advisory
GatingMessage(h) ==
    MsgLimited \o Digits(FREE_TIER_MAX_HOURS) \o MsgRequested \o Digits(h) \o MsgClamped

\* a plausible slip: < for <=, so that a request of exactly the ceiling is clamped
Mutant_enforce_free_tier_strict(h) ==
    IF h < FREE_TIER_MAX_HOURS
    THEN [hours |-> h, message |-> None]
    ELSE [hours |-> FREE_TIER_MAX_HOURS, message |-> Some(GatingMessage(h))]

\* _enforce_free_tier(hours) -> (clamped_hours, message_or_None)
_enforce_free_tier(h) ==
    IF h <= FREE_TIER_MAX_HOURS
    THEN [hours |-> h, message |-> None]
    ELSE [hours |-> FREE_TIER_MAX_HOURS, message |-> Some(GatingMessage(h))]

\* the requests the gate is tried on: NegRequest below zero up to MaxRequest
NegRequest == 2
MaxRequest == 1000
RequestedHours == (0 - NegRequest)..MaxRequest

GateInit ==
    /\ hours \in RequestedHours
    /\ gate_out = None
    /\ gate_again = None

\* the gate's variables in the specifications of the other components
GateIdle ==
    /\ hours = 0
    /\ gate_out = None
    /\ gate_again = None

\* the handler's call: hours, gating_msg = _enforce_free_tier(hours)
Clamp ==
    /\ gate_out = None
    /\ gate_out' = Some(_enforce_free_tier(hours))
    /\ UNCHANGED <<hours, gate_again, notGateVars>>

\* the gate applied to its own effective hours
ClampAgain ==
    /\ gate_out # None
    /\ gate_again = None
    /\ gate_again' = Some(_enforce_free_tier(gate_out[1].hours))
    /\ UNCHANGED <<hours, gate_out, notGateVars>>

GateNext == Clamp \/ ClampAgain


-----------------------------------------------------------------------------
(* Python containers *)

\* {} (an empty dict, or an empty defaultdict)
EmptyDict == [k \in {} |-> 0]

\* d.get(k): the value under k, None when the dict has no key k
Get(d, k) == IF k \in DOMAIN d THEN d[k] ELSE None

\* d[k] += 1 on a defaultdict(int)
Inc(d, k) ==
    IF k \in DOMAIN d THEN [d EXCEPT ![k] = @ + 1] ELSE d @@ (k :> 1)

\* a < b on str: lexicographic by code point, a proper prefix first
RECURSIVE StrLess(_, _)
StrLess(a, b) ==
    IF b = <<>> THEN FALSE
    ELSE IF a = <<>> THEN TRUE
    ELSE IF Head(a) # Head(b) THEN Head(a) < Head(b)
    ELSE StrLess(Tail(a), Tail(b))

\* a plausible slip: sorted(keys, reverse=True)
RECURSIVE Mutant_SortedStrs_descending(_)
Mutant_SortedStrs_descending(S) ==
    IF S = {} THEN <<>>
    ELSE LET m == CHOOSE x \in S : \A y \in S : x = y \/ StrLess(y, x)
         IN  <<m>> \o Mutant_SortedStrs_descending(S \ {m})

\* sorted(keys) for a set of str
RECURSIVE SortedStrs(_)
SortedStrs(S) ==
    IF S = {} THEN <<>>
    ELSE LET m == CHOOSE x \in S : \A y \in S : x = y \/ StrLess(x, y)
         IN  <<m>> \o SortedStrs(S \ {m})

\* bool(v) of a nullable str: None and "" are falsy
Truthy(v) == v # None /\ v[1] # <<>>

-----------------------------------------------------------------------------
(* Timeline Aggregator: get_signal_timeline, the same code in the HTTP API
   and in the cloud tool server *)

HourPrefixLen == 13

\* ":00"
HourSuffix == <<58, 48, 48>>
\* "unknown"
Unknown == <<117, 110, 107, 110, 111, 119, 110>>

\* a plausible slip: ts[:16], which keeps the minutes
Mutant_HourKey_minutes(ts) ==
    IF Len(ts) >= HourPrefixLen THEN SubSeq(ts, 1, IF Len(ts) >= 16 THEN 16 ELSE Len(ts))
    ELSE ts

\* hour_key = ts[:13] + ":00" if len(ts) >= 13 else ts
HourKey(ts) ==
    IF Len(ts) >= HourPrefixLen THEN SubSeq(ts, 1, HourPrefixLen) \o HourSuffix ELSE ts

\* a plausible slip: alert_type is looked at before signal_type
Mutant_EffectiveType_alert_first(signal) ==
    IF Truthy(signal.alert_type) THEN signal.alert_type[1]
    ELSE IF Truthy(signal.signal_type) THEN signal.signal_type[1]
    ELSE <<117, 110, 107, 110, 111, 119, 110>>

\* stype = signal.get("signal_type") or signal.get("alert_type") or "unknown"
EffectiveType(signal) ==
    IF Truthy(signal.signal_type) THEN signal.signal_type[1]
    ELSE IF Truthy(signal.alert_type) THEN signal.alert_type[1]
    ELSE Unknown

\* hourly[hour_key] of the defaultdict: the bucket there, or a fresh one
BucketAt(hourly, hour_key) ==
    IF hour_key \in DOMAIN hourly THEN hourly[hour_key]
    ELSE [count |-> 0, by_type |-> EmptyDict, by_weapon |-> EmptyDict]

\* a plausible slip: bucket["count"] = 1 for bucket["count"] += 1
Mutant_AddToBucket_assign(bucket, signal) ==
    [count |-> 1,
     by_type |-> Inc(bucket.by_type, EffectiveType(signal)),
     by_weapon |-> IF Truthy(signal.weapon_type)
                   THEN Inc(bucket.by_weapon, signal.weapon_type[1])
                   ELSE bucket.by_weapon]

\* a plausible slip: bucket["by_weapon"][weapon or "unknown"] += 1 without
\* the if
Mutant_AddToBucket_weapon_default(bucket, signal) ==
    [count |-> bucket.count + 1,
     by_type |-> Inc(bucket.by_type, EffectiveType(signal)),
     by_weapon |-> Inc(bucket.by_weapon,
                       IF Truthy(signal.weapon_type) THEN signal.weapon_type[1]
                       ELSE Unknown)]

\* the body of the grouping loop for one signal
AddToBucket(bucket, signal) ==
    [count |-> bucket.count + 1,
     by_type |-> Inc(bucket.by_type, EffectiveType(signal)),
     by_weapon |-> IF Truthy(signal.weapon_type)
                   THEN Inc(bucket.by_weapon, signal.weapon_type[1])
                   ELSE bucket.by_weapon]

\* hourly after the grouping loop has run over data[1..n]
RECURSIVE Hourly(_, _)
Hourly(data, n) ==
    IF n = 0 THEN EmptyDict
    ELSE LET before == Hourly(data, n - 1)
             key == HourKey(data[n].created_at[1])
             bucket == AddToBucket(BucketAt(before, key), data[n])
         IN  IF key \in DOMAIN before
             THEN [before EXCEPT ![key] = bucket]
             ELSE before @@ (key :> bucket)

\* timeline: one entry per key of hourly, in sorted(hourly.keys()) order
Timeline(data) ==
    LET hourly == Hourly(data, Len(data))
        keys == SortedStrs(DOMAIN hourly)
    IN  [i \in 1..Len(keys) |->
            [hour |-> keys[i],
             count |-> hourly[keys[i]].count,
             by_type |-> hourly[keys[i]].by_type,
             by_weapon |-> hourly[keys[i]].by_weapon]]

\* a plausible slip: the aggregate loop leaves out the alert_type fallback
RECURSIVE Mutant_TypeTotals_no_alert(_, _)
Mutant_TypeTotals_no_alert(data, n) ==
    IF n = 0 THEN EmptyDict
    ELSE Inc(Mutant_TypeTotals_no_alert(data, n - 1),
             IF Truthy(data[n].signal_type) THEN data[n].signal_type[1] ELSE Unknown)

\* type_totals after the aggregate loop has run over data[1..n]
RECURSIVE TypeTotals(_, _)
TypeTotals(data, n) ==
    IF n = 0 THEN EmptyDict
    ELSE Inc(TypeTotals(data, n - 1), EffectiveType(data[n]))

\* weapon_totals after the aggregate loop has run over data[1..n]
RECURSIVE WeaponTotals(_, _)
WeaponTotals(data, n) ==
    IF n = 0 THEN EmptyDict
    ELSE IF Truthy(data[n].weapon_type)
         THEN Inc(WeaponTotals(data, n - 1), data[n].weapon_type[1])
         ELSE WeaponTotals(data, n - 1)

\* the aggregates of the response, for rows whose created_at is a str
TimelineAggregates(data) ==
    LET timeline == Timeline(data)
    IN  [total_signals |-> Len(data),
         hours_with_activity |-> Len(timeline),
         type_totals |-> TypeTotals(data, Len(data)),
         weapon_totals |-> WeaponTotals(data, Len(data)),
         timeline |-> timeline]

\* len(ts) raises TypeError when the created_at key holds None
TimelineRaises(data) == \E i \in 1..Len(data) : data[i].created_at = None

(* The signal rows of the model.  The read is filtered with
   .gte("created_at", cutoff), so no returned row has a null created_at. *)

\* "2026-02-24T14:35:00+00:00"
Ts1435 == <<50, 48, 50, 54, 45, 48, 50, 45, 50, 52, 84, 49, 52, 58, 51, 53, 58, 48, 48, 43, 48, 48, 58, 48, 48>>
\* "2026-02-24T15:00:00+00:00"
Ts1500 == <<50, 48, 50, 54, 45, 48, 50, 45, 50, 52, 84, 49, 53, 58, 48, 48, 58, 48, 48, 43, 48, 48, 58, 48, 48>>
\* "2026-02-24T14", exactly 13 characters
TsHour == <<50, 48, 50, 54, 45, 48, 50, 45, 50, 52, 84, 49, 52>>
\* "2026-02-24", shorter than 13 characters
TsDate == <<50, 48, 50, 54, 45, 48, 50, 45, 50, 52>>
\* "2026-02-24T14:00" and "2026-02-24T15:00", the hour keys
Key14 == <<50, 48, 50, 54, 45, 48, 50, 45, 50, 52, 84, 49, 52, 58, 48, 48>>
Key15 == <<50, 48, 50, 54, 45, 48, 50, 45, 50, 52, 84, 49, 53, 58, 48, 48>>

Timestamps == {Ts1435, Ts1500, TsHour, TsDate}

\* "air", "alert", "drone"
StrAir == <<97, 105, 114>>
StrAlert == <<97, 108, 101, 114, 116>>
StrDrone == <<100, 114, 111, 110, 101>>

\* "Kharkiv", the stored casing of the region
StrKharkiv == <<75, 104, 97, 114, 107, 105, 118>>
\* "kharkiv", the region as a caller writes it
StrKharkivLower == <<107, 104, 97, 114, 107, 105, 118>>

\* (signal_type, alert_type) of a row: a type, an alert only, neither
TypePairs == {<<Some(StrAir), None>>, <<None, Some(StrAlert)>>, <<None, None>>}
WeaponTypes == {None, Some(StrDrone)}

SignalRows ==
    {[signal_type |-> tp[1], alert_type |-> tp[2], weapon_type |-> w,
      target_region |-> Some(StrKharkiv), created_at |-> Some(ts)] :
        tp \in TypePairs, w \in WeaponTypes, ts \in Timestamps}

\* the longest result set tried
MaxSignals == 3

SeqsUpTo(S, n) == UNION {[1..k -> S] : k \in 0..n}

TimelineInit ==
    /\ signals \in SeqsUpTo(SignalRows, MaxSignals)
    /\ timeline_out = None

\* the timeline's variables in the specifications of the other components
TimelineIdle ==
    /\ signals = <<>>
    /\ timeline_out = None

\* the aggregation of get_signal_timeline, from "Group signals by hour" to
\* the response's aggregates
Aggregate ==
    /\ timeline_out = None
    /\ ~TimelineRaises(signals)
    /\ timeline_out' = Some(TimelineAggregates(signals))
    /\ UNCHANGED <<signals, notTimelineVars>>

TimelineNext == Aggregate

-----------------------------------------------------------------------------
(* Relevance Ranker: the sort of search_entities, the same code in the HTTP
   API and in the cloud tool server *)

(* str.lower() of Python 3.11 (Unicode 14.0) on every code point: the
   names the store holds are in any script ("Kyiv", "Київ", "Nguyễn"). *)

\* the upper-case letters above ASCII: the code points first, first + step,
\* ..., last are lowered by adding delta
LowerRuns ==
    {<<192, 214, 1, 32>>, <<216, 222, 1, 32>>, <<256, 302, 2, 1>>, <<306, 310, 2, 1>>,
     <<313, 327, 2, 1>>, <<330, 374, 2, 1>>, <<376, 376, 1, -121>>, <<377, 381, 2, 1>>,
     <<385, 385, 1, 210>>, <<386, 388, 2, 1>>, <<390, 390, 1, 206>>, <<391, 391, 1, 1>>,
     <<393, 394, 1, 205>>, <<395, 395, 1, 1>>, <<398, 398, 1, 79>>, <<399, 399, 1, 202>>,
     <<400, 400, 1, 203>>, <<401, 401, 1, 1>>, <<403, 403, 1, 205>>, <<404, 404, 1, 207>>,
     <<406, 406, 1, 211>>, <<407, 407, 1, 209>>, <<408, 408, 1, 1>>, <<412, 412, 1, 211>>,
     <<413, 413, 1, 213>>, <<415, 415, 1, 214>>, <<416, 420, 2, 1>>, <<422, 422, 1, 218>>,
     <<423, 423, 1, 1>>, <<425, 425, 1, 218>>, <<428, 428, 1, 1>>, <<430, 430, 1, 218>>,
     <<431, 431, 1, 1>>, <<433, 434, 1, 217>>, <<435, 437, 2, 1>>, <<439, 439, 1, 219>>,
     <<440, 440, 1, 1>>, <<444, 444, 1, 1>>, <<452, 452, 1, 2>>, <<453, 453, 1, 1>>,
     <<455, 455, 1, 2>>, <<456, 456, 1, 1>>, <<458, 458, 1, 2>>, <<459, 475, 2, 1>>,
     <<478, 494, 2, 1>>, <<497, 497, 1, 2>>, <<498, 500, 2, 1>>, <<502, 502, 1, -97>>,
     <<503, 503, 1, -56>>, <<504, 542, 2, 1>>, <<544, 544, 1, -130>>, <<546, 562, 2, 1>>,
     <<570, 570, 1, 10795>>, <<571, 571, 1, 1>>, <<573, 573, 1, -163>>, <<574, 574, 1, 10792>>,
     <<577, 577, 1, 1>>, <<579, 579, 1, -195>>, <<580, 580, 1, 69>>, <<581, 581, 1, 71>>,
     <<582, 590, 2, 1>>, <<880, 882, 2, 1>>, <<886, 886, 1, 1>>, <<895, 895, 1, 116>>,
     <<902, 902, 1, 38>>, <<904, 906, 1, 37>>, <<908, 908, 1, 64>>, <<910, 911, 1, 63>>,
     <<913, 929, 1, 32>>, <<931, 939, 1, 32>>, <<975, 975, 1, 8>>, <<984, 1006, 2, 1>>,
     <<1012, 1012, 1, -60>>, <<1015, 1015, 1, 1>>, <<1017, 1017, 1, -7>>, <<1018, 1018, 1, 1>>,
     <<1021, 1023, 1, -130>>, <<1024, 1039, 1, 80>>, <<1040, 1071, 1, 32>>, <<1120, 1152, 2, 1>>,
     <<1162, 1214, 2, 1>>, <<1216, 1216, 1, 15>>, <<1217, 1229, 2, 1>>, <<1232, 1326, 2, 1>>,
     <<1329, 1366, 1, 48>>, <<4256, 4293, 1, 7264>>, <<4295, 4295, 1, 7264>>, <<4301, 4301, 1, 7264>>,
     <<5024, 5103, 1, 38864>>, <<5104, 5109, 1, 8>>, <<7312, 7354, 1, -3008>>, <<7357, 7359, 1, -3008>>,
     <<7680, 7828, 2, 1>>, <<7838, 7838, 1, -7615>>, <<7840, 7934, 2, 1>>, <<7944, 7951, 1, -8>>,
     <<7960, 7965, 1, -8>>, <<7976, 7983, 1, -8>>, <<7992, 7999, 1, -8>>, <<8008, 8013, 1, -8>>,
     <<8025, 8031, 2, -8>>, <<8040, 8047, 1, -8>>, <<8072, 8079, 1, -8>>, <<8088, 8095, 1, -8>>,
     <<8104, 8111, 1, -8>>, <<8120, 8121, 1, -8>>, <<8122, 8123, 1, -74>>, <<8124, 8124, 1, -9>>,
     <<8136, 8139, 1, -86>>, <<8140, 8140, 1, -9>>, <<8152, 8153, 1, -8>>, <<8154, 8155, 1, -100>>,
     <<8168, 8169, 1, -8>>, <<8170, 8171, 1, -112>>, <<8172, 8172, 1, -7>>, <<8184, 8185, 1, -128>>,
     <<8186, 8187, 1, -126>>, <<8188, 8188, 1, -9>>, <<8486, 8486, 1, -7517>>, <<8490, 8490, 1, -8383>>,
     <<8491, 8491, 1, -8262>>, <<8498, 8498, 1, 28>>, <<8544, 8559, 1, 16>>, <<8579, 8579, 1, 1>>,
     <<9398, 9423, 1, 26>>, <<11264, 11311, 1, 48>>, <<11360, 11360, 1, 1>>, <<11362, 11362, 1, -10743>>,
     <<11363, 11363, 1, -3814>>, <<11364, 11364, 1, -10727>>, <<11367, 11371, 2, 1>>, <<11373, 11373, 1, -10780>>,
     <<11374, 11374, 1, -10749>>, <<11375, 11375, 1, -10783>>, <<11376, 11376, 1, -10782>>, <<11378, 11378, 1, 1>>,
     <<11381, 11381, 1, 1>>, <<11390, 11391, 1, -10815>>, <<11392, 11490, 2, 1>>, <<11499, 11501, 2, 1>>,
     <<11506, 11506, 1, 1>>, <<42560, 42604, 2, 1>>, <<42624, 42650, 2, 1>>, <<42786, 42798, 2, 1>>,
     <<42802, 42862, 2, 1>>, <<42873, 42875, 2, 1>>, <<42877, 42877, 1, -35332>>, <<42878, 42886, 2, 1>>,
     <<42891, 42891, 1, 1>>, <<42893, 42893, 1, -42280>>, <<42896, 42898, 2, 1>>, <<42902, 42920, 2, 1>>,
     <<42922, 42922, 1, -42308>>, <<42923, 42923, 1, -42319>>, <<42924, 42924, 1, -42315>>, <<42925, 42925, 1, -42305>>,
     <<42926, 42926, 1, -42308>>, <<42928, 42928, 1, -42258>>, <<42929, 42929, 1, -42282>>, <<42930, 42930, 1, -42261>>,
     <<42931, 42931, 1, 928>>, <<42932, 42946, 2, 1>>, <<42948, 42948, 1, -48>>, <<42949, 42949, 1, -42307>>,
     <<42950, 42950, 1, -35384>>, <<42951, 42953, 2, 1>>, <<42960, 42960, 1, 1>>, <<42966, 42968, 2, 1>>,
     <<42997, 42997, 1, 1>>, <<65313, 65338, 1, 32>>, <<66560, 66599, 1, 40>>, <<66736, 66771, 1, 40>>,
     <<66928, 66938, 1, 39>>, <<66940, 66954, 1, 39>>, <<66956, 66962, 1, 39>>, <<66964, 66965, 1, 39>>,
     <<68736, 68786, 1, 64>>, <<71840, 71871, 1, 32>>, <<93760, 93791, 1, 32>>, <<125184, 125217, 1, 34>>}

\* U+0130 is the one code point whose lower case is two code points: "i" and
\* the combining dot above
LowerChar(c) ==
    IF c < 128 THEN (IF c \in 65..90 THEN <<c + 32>> ELSE <<c>>)
    ELSE IF c = 304 THEN <<105, 775>>
    ELSE IF \E r \in LowerRuns : c \in r[1]..r[2] /\ (c - r[1]) % r[3] = 0
    THEN LET r == CHOOSE r \in LowerRuns : c \in r[1]..r[2] /\ (c - r[1]) % r[3] = 0
         IN  <<c + r[4]>>
    ELSE <<c>>

\* the code points str.lower() skips when it looks for the letters around a
\* capital sigma, and the letters it looks for
CaseIgnorableRanges ==
    {<<39, 39>>, <<46, 46>>, <<58, 58>>, <<94, 94>>, <<96, 96>>, <<168, 168>>,
     <<173, 173>>, <<175, 175>>, <<180, 180>>, <<183, 184>>, <<688, 879>>, <<884, 885>>,
     <<890, 890>>, <<900, 901>>, <<903, 903>>, <<1155, 1161>>, <<1369, 1369>>, <<1375, 1375>>,
     <<1425, 1469>>, <<1471, 1471>>, <<1473, 1474>>, <<1476, 1477>>, <<1479, 1479>>, <<1524, 1524>>,
     <<1536, 1541>>, <<1552, 1562>>, <<1564, 1564>>, <<1600, 1600>>, <<1611, 1631>>, <<1648, 1648>>,
     <<1750, 1757>>, <<1759, 1768>>, <<1770, 1773>>, <<1807, 1807>>, <<1809, 1809>>, <<1840, 1866>>,
     <<1958, 1968>>, <<2027, 2037>>, <<2042, 2042>>, <<2045, 2045>>, <<2070, 2093>>, <<2137, 2139>>,
     <<2184, 2184>>, <<2192, 2193>>, <<2200, 2207>>, <<2249, 2306>>, <<2362, 2362>>, <<2364, 2364>>,
     <<2369, 2376>>, <<2381, 2381>>, <<2385, 2391>>, <<2402, 2403>>, <<2417, 2417>>, <<2433, 2433>>,
     <<2492, 2492>>, <<2497, 2500>>, <<2509, 2509>>, <<2530, 2531>>, <<2558, 2558>>, <<2561, 2562>>,
     <<2620, 2620>>, <<2625, 2626>>, <<2631, 2632>>, <<2635, 2637>>, <<2641, 2641>>, <<2672, 2673>>,
     <<2677, 2677>>, <<2689, 2690>>, <<2748, 2748>>, <<2753, 2757>>, <<2759, 2760>>, <<2765, 2765>>,
     <<2786, 2787>>, <<2810, 2815>>, <<2817, 2817>>, <<2876, 2876>>, <<2879, 2879>>, <<2881, 2884>>,
     <<2893, 2893>>, <<2901, 2902>>, <<2914, 2915>>, <<2946, 2946>>, <<3008, 3008>>, <<3021, 3021>>,
     <<3072, 3072>>, <<3076, 3076>>, <<3132, 3132>>, <<3134, 3136>>, <<3142, 3144>>, <<3146, 3149>>,
     <<3157, 3158>>, <<3170, 3171>>, <<3201, 3201>>, <<3260, 3260>>, <<3263, 3263>>, <<3270, 3270>>,
     <<3276, 3277>>, <<3298, 3299>>, <<3328, 3329>>, <<3387, 3388>>, <<3393, 3396>>, <<3405, 3405>>,
     <<3426, 3427>>, <<3457, 3457>>, <<3530, 3530>>, <<3538, 3540>>, <<3542, 3542>>, <<3633, 3633>>,
     <<3636, 3642>>, <<3654, 3662>>, <<3761, 3761>>, <<3764, 3772>>, <<3782, 3782>>, <<3784, 3789>>,
     <<3864, 3865>>, <<3893, 3893>>, <<3895, 3895>>, <<3897, 3897>>, <<3953, 3966>>, <<3968, 3972>>,
     <<3974, 3975>>, <<3981, 3991>>, <<3993, 4028>>, <<4038, 4038>>, <<4141, 4144>>, <<4146, 4151>>,
     <<4153, 4154>>, <<4157, 4158>>, <<4184, 4185>>, <<4190, 4192>>, <<4209, 4212>>, <<4226, 4226>>,
     <<4229, 4230>>, <<4237, 4237>>, <<4253, 4253>>, <<4348, 4348>>, <<4957, 4959>>, <<5906, 5908>>,
     <<5938, 5939>>, <<5970, 5971>>, <<6002, 6003>>, <<6068, 6069>>, <<6071, 6077>>, <<6086, 6086>>,
     <<6089, 6099>>, <<6103, 6103>>, <<6109, 6109>>, <<6155, 6159>>, <<6211, 6211>>, <<6277, 6278>>,
     <<6313, 6313>>, <<6432, 6434>>, <<6439, 6440>>, <<6450, 6450>>, <<6457, 6459>>, <<6679, 6680>>,
     <<6683, 6683>>, <<6742, 6742>>, <<6744, 6750>>, <<6752, 6752>>, <<6754, 6754>>, <<6757, 6764>>,
     <<6771, 6780>>, <<6783, 6783>>, <<6823, 6823>>, <<6832, 6862>>, <<6912, 6915>>, <<6964, 6964>>,
     <<6966, 6970>>, <<6972, 6972>>, <<6978, 6978>>, <<7019, 7027>>, <<7040, 7041>>, <<7074, 7077>>,
     <<7080, 7081>>, <<7083, 7085>>, <<7142, 7142>>, <<7144, 7145>>, <<7149, 7149>>, <<7151, 7153>>,
     <<7212, 7219>>, <<7222, 7223>>, <<7288, 7293>>, <<7376, 7378>>, <<7380, 7392>>, <<7394, 7400>>,
     <<7405, 7405>>, <<7412, 7412>>, <<7416, 7417>>, <<7468, 7530>>, <<7544, 7544>>, <<7579, 7679>>,
     <<8125, 8125>>, <<8127, 8129>>, <<8141, 8143>>, <<8157, 8159>>, <<8173, 8175>>, <<8189, 8190>>,
     <<8203, 8207>>, <<8216, 8217>>, <<8228, 8228>>, <<8231, 8231>>, <<8234, 8238>>, <<8288, 8292>>,
     <<8294, 8303>>, <<8305, 8305>>, <<8319, 8319>>, <<8336, 8348>>, <<8400, 8432>>, <<11388, 11389>>,
     <<11503, 11505>>, <<11631, 11631>>, <<11647, 11647>>, <<11744, 11775>>, <<11823, 11823>>, <<12293, 12293>>,
     <<12330, 12333>>, <<12337, 12341>>, <<12347, 12347>>, <<12441, 12446>>, <<12540, 12542>>, <<40981, 40981>>,
     <<42232, 42237>>, <<42508, 42508>>, <<42607, 42610>>, <<42612, 42621>>, <<42623, 42623>>, <<42652, 42655>>,
     <<42736, 42737>>, <<42752, 42785>>, <<42864, 42864>>, <<42888, 42890>>, <<42994, 42996>>, <<43000, 43001>>,
     <<43010, 43010>>, <<43014, 43014>>, <<43019, 43019>>, <<43045, 43046>>, <<43052, 43052>>, <<43204, 43205>>,
     <<43232, 43249>>, <<43263, 43263>>, <<43302, 43309>>, <<43335, 43345>>, <<43392, 43394>>, <<43443, 43443>>,
     <<43446, 43449>>, <<43452, 43453>>, <<43471, 43471>>, <<43493, 43494>>, <<43561, 43566>>, <<43569, 43570>>,
     <<43573, 43574>>, <<43587, 43587>>, <<43596, 43596>>, <<43632, 43632>>, <<43644, 43644>>, <<43696, 43696>>,
     <<43698, 43700>>, <<43703, 43704>>, <<43710, 43711>>, <<43713, 43713>>, <<43741, 43741>>, <<43756, 43757>>,
     <<43763, 43764>>, <<43766, 43766>>, <<43867, 43871>>, <<43881, 43883>>, <<44005, 44005>>, <<44008, 44008>>,
     <<44013, 44013>>, <<64286, 64286>>, <<64434, 64450>>, <<65024, 65039>>, <<65043, 65043>>, <<65056, 65071>>,
     <<65106, 65106>>, <<65109, 65109>>, <<65279, 65279>>, <<65287, 65287>>, <<65294, 65294>>, <<65306, 65306>>,
     <<65342, 65342>>, <<65344, 65344>>, <<65392, 65392>>, <<65438, 65439>>, <<65507, 65507>>, <<65529, 65531>>,
     <<66045, 66045>>, <<66272, 66272>>, <<66422, 66426>>, <<67456, 67461>>, <<67463, 67504>>, <<67506, 67514>>,
     <<68097, 68099>>, <<68101, 68102>>, <<68108, 68111>>, <<68152, 68154>>, <<68159, 68159>>, <<68325, 68326>>,
     <<68900, 68903>>, <<69291, 69292>>, <<69446, 69456>>, <<69506, 69509>>, <<69633, 69633>>, <<69688, 69702>>,
     <<69744, 69744>>, <<69747, 69748>>, <<69759, 69761>>, <<69811, 69814>>, <<69817, 69818>>, <<69821, 69821>>,
     <<69826, 69826>>, <<69837, 69837>>, <<69888, 69890>>, <<69927, 69931>>, <<69933, 69940>>, <<70003, 70003>>,
     <<70016, 70017>>, <<70070, 70078>>, <<70089, 70092>>, <<70095, 70095>>, <<70191, 70193>>, <<70196, 70196>>,
     <<70198, 70199>>, <<70206, 70206>>, <<70367, 70367>>, <<70371, 70378>>, <<70400, 70401>>, <<70459, 70460>>,
     <<70464, 70464>>, <<70502, 70508>>, <<70512, 70516>>, <<70712, 70719>>, <<70722, 70724>>, <<70726, 70726>>,
     <<70750, 70750>>, <<70835, 70840>>, <<70842, 70842>>, <<70847, 70848>>, <<70850, 70851>>, <<71090, 71093>>,
     <<71100, 71101>>, <<71103, 71104>>, <<71132, 71133>>, <<71219, 71226>>, <<71229, 71229>>, <<71231, 71232>>,
     <<71339, 71339>>, <<71341, 71341>>, <<71344, 71349>>, <<71351, 71351>>, <<71453, 71455>>, <<71458, 71461>>,
     <<71463, 71467>>, <<71727, 71735>>, <<71737, 71738>>, <<71995, 71996>>, <<71998, 71998>>, <<72003, 72003>>,
     <<72148, 72151>>, <<72154, 72155>>, <<72160, 72160>>, <<72193, 72202>>, <<72243, 72248>>, <<72251, 72254>>,
     <<72263, 72263>>, <<72273, 72278>>, <<72281, 72283>>, <<72330, 72342>>, <<72344, 72345>>, <<72752, 72758>>,
     <<72760, 72765>>, <<72767, 72767>>, <<72850, 72871>>, <<72874, 72880>>, <<72882, 72883>>, <<72885, 72886>>,
     <<73009, 73014>>, <<73018, 73018>>, <<73020, 73021>>, <<73023, 73029>>, <<73031, 73031>>, <<73104, 73105>>,
     <<73109, 73109>>, <<73111, 73111>>, <<73459, 73460>>, <<78896, 78904>>, <<92912, 92916>>, <<92976, 92982>>,
     <<92992, 92995>>, <<94031, 94031>>, <<94095, 94111>>, <<94176, 94177>>, <<94179, 94180>>, <<110576, 110579>>,
     <<110581, 110587>>, <<110589, 110590>>, <<113821, 113822>>, <<113824, 113827>>, <<118528, 118573>>, <<118576, 118598>>,
     <<119143, 119145>>, <<119155, 119170>>, <<119173, 119179>>, <<119210, 119213>>, <<119362, 119364>>, <<121344, 121398>>,
     <<121403, 121452>>, <<121461, 121461>>, <<121476, 121476>>, <<121499, 121503>>, <<121505, 121519>>, <<122880, 122886>>,
     <<122888, 122904>>, <<122907, 122913>>, <<122915, 122916>>, <<122918, 122922>>, <<123184, 123197>>, <<123566, 123566>>,
     <<123628, 123631>>, <<125136, 125142>>, <<125252, 125259>>, <<127995, 127999>>, <<917505, 917505>>, <<917536, 917631>>,
     <<917760, 917999>>}
CasedRanges ==
    {<<65, 90>>, <<97, 122>>, <<170, 170>>, <<181, 181>>, <<186, 186>>, <<192, 214>>,
     <<216, 246>>, <<248, 442>>, <<444, 447>>, <<452, 659>>, <<661, 687>>, <<880, 883>>,
     <<886, 887>>, <<891, 893>>, <<895, 895>>, <<902, 902>>, <<904, 906>>, <<908, 908>>,
     <<910, 929>>, <<931, 1013>>, <<1015, 1153>>, <<1162, 1327>>, <<1329, 1366>>, <<1376, 1416>>,
     <<4256, 4293>>, <<4295, 4295>>, <<4301, 4301>>, <<4304, 4346>>, <<4349, 4351>>, <<5024, 5109>>,
     <<5112, 5117>>, <<7296, 7304>>, <<7312, 7354>>, <<7357, 7359>>, <<7424, 7467>>, <<7531, 7543>>,
     <<7545, 7578>>, <<7680, 7957>>, <<7960, 7965>>, <<7968, 8005>>, <<8008, 8013>>, <<8016, 8023>>,
     <<8025, 8025>>, <<8027, 8027>>, <<8029, 8029>>, <<8031, 8061>>, <<8064, 8116>>, <<8118, 8124>>,
     <<8126, 8126>>, <<8130, 8132>>, <<8134, 8140>>, <<8144, 8147>>, <<8150, 8155>>, <<8160, 8172>>,
     <<8178, 8180>>, <<8182, 8188>>, <<8450, 8450>>, <<8455, 8455>>, <<8458, 8467>>, <<8469, 8469>>,
     <<8473, 8477>>, <<8484, 8484>>, <<8486, 8486>>, <<8488, 8488>>, <<8490, 8493>>, <<8495, 8500>>,
     <<8505, 8505>>, <<8508, 8511>>, <<8517, 8521>>, <<8526, 8526>>, <<8544, 8575>>, <<8579, 8580>>,
     <<9398, 9449>>, <<11264, 11387>>, <<11390, 11492>>, <<11499, 11502>>, <<11506, 11507>>, <<11520, 11557>>,
     <<11559, 11559>>, <<11565, 11565>>, <<42560, 42605>>, <<42624, 42651>>, <<42786, 42863>>, <<42865, 42887>>,
     <<42891, 42894>>, <<42896, 42954>>, <<42960, 42961>>, <<42963, 42963>>, <<42965, 42969>>, <<42997, 42998>>,
     <<43002, 43002>>, <<43824, 43866>>, <<43872, 43880>>, <<43888, 43967>>, <<64256, 64262>>, <<64275, 64279>>,
     <<65313, 65338>>, <<65345, 65370>>, <<66560, 66639>>, <<66736, 66771>>, <<66776, 66811>>, <<66928, 66938>>,
     <<66940, 66954>>, <<66956, 66962>>, <<66964, 66965>>, <<66967, 66977>>, <<66979, 66993>>, <<66995, 67001>>,
     <<67003, 67004>>, <<68736, 68786>>, <<68800, 68850>>, <<71840, 71903>>, <<93760, 93823>>, <<119808, 119892>>,
     <<119894, 119964>>, <<119966, 119967>>, <<119970, 119970>>, <<119973, 119974>>, <<119977, 119980>>, <<119982, 119993>>,
     <<119995, 119995>>, <<119997, 120003>>, <<120005, 120069>>, <<120071, 120074>>, <<120077, 120084>>, <<120086, 120092>>,
     <<120094, 120121>>, <<120123, 120126>>, <<120128, 120132>>, <<120134, 120134>>, <<120138, 120144>>, <<120146, 120485>>,
     <<120488, 120512>>, <<120514, 120538>>, <<120540, 120570>>, <<120572, 120596>>, <<120598, 120628>>, <<120630, 120654>>,
     <<120656, 120686>>, <<120688, 120712>>, <<120714, 120744>>, <<120746, 120770>>, <<120772, 120779>>, <<122624, 122633>>,
     <<122635, 122654>>, <<125184, 125251>>, <<127280, 127305>>, <<127312, 127337>>, <<127344, 127369>>}
CaseIgnorable(c) == \E r \in CaseIgnorableRanges : c \in r[1]..r[2]
Cased(c) == \E r \in CasedRanges : c \in r[1]..r[2]

\* a capital sigma is lowered to the final sigma when a letter precedes it
\* and no letter follows it
FinalSigma(str, i) ==
    LET before == {j \in 1..(i - 1) : ~CaseIgnorable(str[j])}
        after == {j \in (i + 1)..Len(str) : ~CaseIgnorable(str[j])}
    IN  /\ before # {}
        /\ Cased(str[CHOOSE j \in before : \A k \in before : k <= j])
        /\ \/ after = {}
           \/ ~Cased(str[CHOOSE j \in after : \A k \in after : j <= k])

\* the lower case of str[1..n]
RECURSIVE LowerUpTo(_, _)
LowerUpTo(str, n) ==
    IF n = 0 THEN <<>>
    ELSE LowerUpTo(str, n - 1)
         \o (IF str[n] = 931
             THEN (IF FinalSigma(str, n) THEN <<962>> ELSE <<963>>)
             ELSE LowerChar(str[n]))

\* str.lower()
Lower(str) == LowerUpTo(str, Len(str))

\* n.startswith(prefix)
StartsWith(n, prefix) ==
    Len(n) >= Len(prefix) /\ SubSeq(n, 1, Len(prefix)) = prefix

\* a plausible slip: the name is compared without .lower()
Mutant_sort_key_case_sensitive(e, name_lower) ==
    LET n == IF Truthy(e.name) THEN e.name[1] ELSE <<>>
    IN  IF n = name_lower THEN <<0, n>>
        ELSE IF StartsWith(n, name_lower) THEN <<1, n>>
        ELSE <<2, n>>

\* sort_key(e), with name_lower = name.lower() of the enclosing function
sort_key(e, name_lower) ==
    LET n == Lower(IF Truthy(e.name) THEN e.name[1] ELSE <<>>)
    IN  IF n = name_lower THEN <<0, n>>
        ELSE IF StartsWith(n, name_lower) THEN <<1, n>>
        ELSE <<2, n>>

\* k1 < k2 on the (tier, name) tuples
KeyLess(k1, k2) ==
    k1[1] < k2[1] \/ (k1[1] = k2[1] /\ StrLess(k1[2], k2[2]))

\* list.sort(key=...) is stable: an element is placed after every element
\* already placed whose key is not greater than its own
RECURSIVE InsertByKey(_, _, _)
InsertByKey(sorted, e, name_lower) ==
    IF sorted = <<>> THEN <<e>>
    ELSE IF KeyLess(sort_key(e, name_lower), sort_key(Head(sorted), name_lower))
         THEN <<e>> \o sorted
         ELSE <<Head(sorted)>> \o InsertByKey(Tail(sorted), e, name_lower)

RECURSIVE SortedByKey(_, _, _)
SortedByKey(list, n, name_lower) ==
    IF n = 0 THEN <<>>
    ELSE InsertByKey(SortedByKey(list, n - 1, name_lower), list[n], name_lower)

\* name_lower = name.lower(); results.sort(key=sort_key)
RankedResults(list, query) ==
    SortedByKey(list, Len(list), Lower(query))

\* "ab", "AB", "abc", "Abd", "cab", "b"
StrLowerAb == <<97, 98>>
StrUpperAb == <<65, 66>>
StrAbc == <<97, 98, 99>>
StrAbd == <<65, 98, 100>>
StrCab == <<99, 97, 98>>
StrB == <<98>>

\* the hits of the model: two exact matches that differ in case only, two
\* prefix matches, a substring match, a name that only sorts, a null name
EntityHits ==
    {[id |-> 1, name |-> Some(StrLowerAb), entity_type |-> "person"],
     [id |-> 2, name |-> Some(StrUpperAb), entity_type |-> "organisation"],
     [id |-> 3, name |-> Some(StrAbc), entity_type |-> "person"],
     [id |-> 4, name |-> Some(StrAbd), entity_type |-> "location"],
     [id |-> 5, name |-> Some(StrCab), entity_type |-> "country"],
     [id |-> 6, name |-> Some(StrB), entity_type |-> "person"],
     [id |-> 7, name |-> None, entity_type |-> "location"]}

Queries == {StrLowerAb, StrUpperAb}

\* the longest merged hit list tried
MaxHits == 4

RankerInit ==
    /\ name \in Queries
    /\ results \in SeqsUpTo(EntityHits, MaxHits)
    /\ ranked = None

\* the ranker's variables in the specifications of the other components
RankerIdle ==
    /\ name = <<>>
    /\ results = <<>>
    /\ ranked = None

\* search_entities, from "Sort by name relevance" to results.sort
Rank ==
    /\ ranked = None
    /\ ranked' = Some(RankedResults(results, name))
    /\ UNCHANGED <<name, results, notRankerVars>>

RankerNext == Rank

-----------------------------------------------------------------------------
(* The clock and the formatting of timestamps *)

\* datetime.now(timezone.utc), in whole hours since 2026-01-01T00:00 UTC:
\* 2026-03-15T12:35:00.250000+00:00
NowHour == 1764
\* ":35:00.250000", the part of now below the hour, which no subtraction of
\* whole hours changes
BelowHour == <<58, 51, 53, 58, 48, 48, 46, 50, 53, 48, 48, 48, 48>>
\* "+00:00", the offset isoformat() writes for an aware UTC datetime
UtcOffset == <<43, 48, 48, 58, 48, 48>>

\* the days of the months of a common year; February has 29 in a leap year
MonthDays == <<31, 28, 31, 30, 31, 30, 31, 31, 30, 31, 30, 31>>
IsLeap(y) == (y % 4 = 0 /\ y % 100 # 0) \/ y % 400 = 0
YearDays(y) == IF IsLeap(y) THEN 366 ELSE 365
MonthLen(y, m) == IF m = 2 /\ IsLeap(y) THEN 29 ELSE MonthDays[m]

\* the year and the day of that year (from 0) of the day d days after the
\* first day of year y; d may be negative
RECURSIVE YearDay(_, _)
YearDay(d, y) ==
    IF d < 0 THEN YearDay(d + YearDays(y - 1), y - 1)
    ELSE IF d >= YearDays(y) THEN YearDay(d - YearDays(y), y + 1)
    ELSE <<y, d>>

\* the month (1..12) and the day of month of the d-th day (from 0) of year y
RECURSIVE MonthDay(_, _, _)
MonthDay(y, d, m) ==
    IF d < MonthLen(y, m) THEN <<m, d + 1>> ELSE MonthDay(y, d - MonthLen(y, m), m + 1)

\* two and four decimal digits
Pad2(n) == <<48 + (n \div 10), 48 + (n % 10)>>
Pad4(n) == Pad2(n \div 100) \o Pad2(n % 100)

\* isoformat() of the datetime t whole hours after 2026-01-01T00:35:00.250000,
\* t of either sign; aware datetimes carry the offset, naive ones (utcnow) do
\* not
IsoFormat(t, aware) ==
    LET yd == YearDay(t \div 24, 2026)
        md == MonthDay(yd[1], yd[2], 1)
    IN  Pad4(yd[1]) \o <<45>> \o Pad2(md[1]) \o <<45>> \o Pad2(md[2]) \o <<84>>
        \o Pad2(t % 24) \o BelowHour \o (IF aware THEN UtcOffset ELSE <<>>)

\* _cutoff_iso(hours): (datetime.now(timezone.utc) - timedelta(hours=hours)).isoformat()
_cutoff_iso(h) == IsoFormat(NowHour - h, TRUE)

\* datetime.now(timezone.utc).isoformat(), the generated_at stamp
GeneratedAt == IsoFormat(NowHour, TRUE)

\* f"{hours}h"
Timeframe(h) == Digits(h) \o <<104>>

\* list[:n]
Take(list, n) == SubSeq(list, 1, IF Len(list) < n THEN Len(list) ELSE n)

\* [f(x) for x in list]
MapSeq(f(_), list) == [i \in 1..Len(list) |-> f(list[i])]

-----------------------------------------------------------------------------
(* Response Formatter (cloud tool server and HTTP API: the same code) *)

ContentLimit == 500

\* format_article(article); content is (article.get("content") or "")[:500],
\* a str
format_article(article) ==
    [id |-> Get(article, "id"),
     title |-> Get(article, "title"),
     content |-> Some(Take(IF Truthy(Get(article, "content"))
                           THEN Get(article, "content")[1] ELSE <<>>,
                           ContentLimit)),
     published |-> Get(article, "published"),
     author |-> Get(article, "author"),
     link |-> Get(article, "link"),
     sentiment |-> Get(article, "sentiment_category"),
     story_id |-> Get(article, "story_id")]

\* a plausible slip: created and updated are read from each other's key
Mutant_format_story_swapped(story) ==
    [id |-> Get(story, "id"),
     title |-> Get(story, "title"),
     summary |-> Get(story, "summary"),
     description |-> Get(story, "description"),
     topic_keywords |-> Get(story, "topic_keywords"),
     created |-> Get(story, "updated"),
     updated |-> Get(story, "created"),
     source_count |-> Get(story, "source_count")]

\* format_story(story)
format_story(story) ==
    [id |-> Get(story, "id"),
     title |-> Get(story, "title"),
     summary |-> Get(story, "summary"),
     description |-> Get(story, "description"),
     topic_keywords |-> Get(story, "topic_keywords"),
     created |-> Get(story, "created"),
     updated |-> Get(story, "updated"),
     source_count |-> Get(story, "source_count")]

\* format_signal(signal)
format_signal(signal) ==
    [type |-> Get(signal, "signal_type"),
     weapon |-> Get(signal, "weapon_type"),
     location |-> Get(signal, "target_location"),
     region |-> Get(signal, "target_region"),
     direction |-> Get(signal, "direction"),
     alert_type |-> Get(signal, "alert_type"),
     alert_status |-> Get(signal, "alert_status"),
     timestamp |-> Get(signal, "created_at")]

-----------------------------------------------------------------------------
(* The Record Store as a handler sees it.  A handler issues its reads in
   program order; the k-th read of an invocation raises when k is in
   db.fails, and returns the rows the store holds for that read otherwise.
   The usage-log insert succeeds when db.insert_ok. *)

ReadEvent(table, cutoff, ok) ==
    [op |-> "read", what |-> table, cutoff |-> cutoff, ok |-> ok]

RpcEvent(fn, ok) ==
    [op |-> "rpc", what |-> fn, cutoff |-> None, ok |-> ok]

LogEvent(tool_name, status, ok) ==
    [op |-> "log", what |-> status, tool |-> tool_name, ok |-> ok]

\* str(e) of the exception a failed store call raises
StoreUnavailable == <<"StoreUnavailable">>

\* what a handler hands back: the store calls it issued, what the caller
\* received, whether an exception left it
Outcome(tr, resp, exc) == [trace |-> tr, response |-> resp, raised |-> exc]

-----------------------------------------------------------------------------
(* Usage Meter *)

\* a plausible slip: no try/except around the insert, so that its failure
\* is raised to the caller
Mutant_log_usage_unguarded(tool_name, status, insert_ok) ==
    [event |-> LogEvent(tool_name, status, insert_ok), raised |-> ~insert_ok]

\* _log_usage(tool_name, params, client_id, status, duration_ms): the insert
\* is attempted once, and its failure is logged and swallowed
_log_usage(tool_name, status, insert_ok) ==
    [event |-> LogEvent(tool_name, status, insert_ok), raised |-> FALSE]

-----------------------------------------------------------------------------
(* Cloud tool server: the try/except every tool is written in.  body is
   what the try block did up to its _log_usage call: the reads it issued,
   the exception it raised (if any), and otherwise the status it logs and
   the payload it returns. *)

Raise(tr, e) == [trace |-> tr, exc |-> Some(e), status |-> "error", payload |-> None]

\* a plausible slip: every return that is not a success is reported to the
\* usage log as "error"
Mutant_Return_logs_error(tr, status, payload) ==
    [trace |-> tr, exc |-> None,
     status |-> IF status = "ok" THEN "ok" ELSE "error",
     payload |-> Some(payload)]

\* _log_usage(..., status, ...) followed by return payload
Return(tr, status, payload) ==
    [trace |-> tr, exc |-> None, status |-> status, payload |-> Some(payload)]

\* {"status": "error", "error": str(e)}
ErrorPayload(e) == [status |-> "error", error |-> e]

\* a plausible slip: the except handler returns the error payload without
\* reporting the invocation
Mutant_CloudExcept_no_log(tool_name, tr, e, insert_ok) ==
    Outcome(tr, Some(ErrorPayload(e)), FALSE)

\* except Exception as e: _log_usage(..., "error", ...); return the error payload.
\* An exception raised here leaves the tool.
CloudExcept(tool_name, tr, e, insert_ok) ==
    LET log == _log_usage(tool_name, "error", insert_ok)
    IN  IF log.raised
        THEN Outcome(tr \o <<log.event>>, None, TRUE)
        ELSE Outcome(tr \o <<log.event>>, Some(ErrorPayload(e)), FALSE)

\* a plausible slip: the try block returns its payload without reporting the
\* invocation
Mutant_CloudTool_no_log(tool_name, body, insert_ok) ==
    IF body.exc # None
    THEN CloudExcept(tool_name, body.trace, body.exc[1], insert_ok)
    ELSE Outcome(body.trace, body.payload, FALSE)

\* try: ... _log_usage(..., status, ...); return payload / except Exception
CloudTool(tool_name, body, insert_ok) ==
    IF body.exc # None
    THEN CloudExcept(tool_name, body.trace, body.exc[1], insert_ok)
    ELSE LET log == _log_usage(tool_name, body.status, insert_ok)
         IN  IF log.raised
             THEN CloudExcept(tool_name, body.trace \o <<log.event>>,
                              <<"usage log insert failed">>, insert_ok)
             ELSE Outcome(body.trace \o <<log.event>>, body.payload, FALSE)

\* a plausible slip: response["gating_message"] = gating_msg without the if
Mutant_WithGating_always(resp, gating_msg) ==
    [gating_message |-> gating_msg] @@ resp

\* if gating_msg: response["gating_message"] = gating_msg
WithGating(resp, gating_msg) ==
    IF Truthy(gating_msg) THEN [gating_message |-> gating_msg[1]] @@ resp ELSE resp

-----------------------------------------------------------------------------
(* Cloud tool server: health *)

\* health_endpoint, GET /health
cloud_health_endpoint(db) ==
    IF 1 \in db.fails
    THEN LET log == _log_usage("health_check", "error", db.insert_ok)
             tr == <<ReadEvent("news_item", None, FALSE), log.event>>
         IN  IF log.raised THEN Outcome(tr, None, TRUE)
             ELSE Outcome(tr, Some([status |-> "unhealthy", error |-> StoreUnavailable,
                                    service |-> "peripheral-mcp-cloud",
                                    status_code |-> 503]), FALSE)
    ELSE LET body == Return(<<ReadEvent("news_item", None, TRUE)>>, "ok",
                            [status |-> "healthy", service |-> "peripheral-mcp-cloud",
                             timestamp |-> GeneratedAt, status_code |-> 200])
             log == _log_usage("health_check", "ok", db.insert_ok)
             tr == body.trace \o <<log.event>>
         IN  IF ~log.raised THEN Outcome(tr, body.payload, FALSE)
             ELSE LET log2 == _log_usage("health_check", "error", db.insert_ok)
                  IN  IF log2.raised THEN Outcome(tr \o <<log2.event>>, None, TRUE)
                      ELSE Outcome(tr \o <<log2.event>>,
                                   Some([status |-> "unhealthy",
                                         error |-> <<"usage log insert failed">>,
                                         service |-> "peripheral-mcp-cloud",
                                         status_code |-> 503]), FALSE)

\* health_check, the tool
cloud_health_check(db) ==
    IF 1 \in db.fails
    THEN LET log == _log_usage("health_check", "error", db.insert_ok)
             tr == <<ReadEvent("news_item", None, FALSE), log.event>>
         IN  IF log.raised THEN Outcome(tr, None, TRUE)
             ELSE Outcome(tr, Some(ErrorPayload(StoreUnavailable)), FALSE)
    ELSE LET log == _log_usage("health_check", "ok", db.insert_ok)
             tr == <<ReadEvent("news_item", None, TRUE), log.event>>
         IN  IF ~log.raised
             THEN Outcome(tr, Some([status |-> "healthy",
                                    service |-> "peripheral-mcp-cloud",
                                    timestamp |-> GeneratedAt]), FALSE)
             ELSE LET log2 == _log_usage("health_check", "error", db.insert_ok)
                  IN  IF log2.raised THEN Outcome(tr \o <<log2.event>>, None, TRUE)
                      ELSE Outcome(tr \o <<log2.event>>,
                                   Some(ErrorPayload(<<"usage log insert failed">>)), FALSE)

-----------------------------------------------------------------------------
(* Cloud tool server: the tools with one store read *)

\* len(sources): the distinct osint_source_id of the rows
SourcesActive(data) == Cardinality({data[i].osint_source_id : i \in 1..Len(data)})

\* get_latest_briefing(hours, region)
cloud_get_latest_briefing(args, db) ==
    LET gate == _enforce_free_tier(args.hours)
        cutoff == _cutoff_iso(gate.hours)
        body ==
            IF 1 \in db.fails
            THEN Raise(<<ReadEvent("news_item", Some(cutoff), FALSE)>>, StoreUnavailable)
            ELSE LET articles == MapSeq(format_article, db.data)
                 IN  Return(<<ReadEvent("news_item", Some(cutoff), TRUE)>>, "ok",
                        WithGating([timeframe |-> Timeframe(gate.hours),
                                    count |-> Len(articles),
                                    articles |-> Take(articles, 20),
                                    sources_active |-> SourcesActive(db.data),
                                    generated_at |-> GeneratedAt],
                                   gate.message))
    IN  CloudTool("get_latest_briefing", body, db.insert_ok)

\* by_type of get_military_signals after its loop has run over data[1..n];
\* the key is the row's signal_type, null included (the key is always present)
RECURSIVE Breakdown(_, _)
Breakdown(data, n) ==
    IF n = 0 THEN EmptyDict ELSE Inc(Breakdown(data, n - 1), data[n].signal_type)

\* actual_region = result.data[0].get("target_region", region) if result.data
ActualRegion(data, region) ==
    IF data # <<>> THEN data[1].target_region ELSE Some(region)

\* get_military_signals(region, hours, signal_type)
cloud_get_military_signals(args, db) ==
    LET gate == _enforce_free_tier(args.hours)
        cutoff == _cutoff_iso(gate.hours)
        body ==
            IF 1 \in db.fails
            THEN Raise(<<ReadEvent("signal", Some(cutoff), FALSE)>>, StoreUnavailable)
            ELSE LET sigs == MapSeq(format_signal, db.data)
                 IN  Return(<<ReadEvent("signal", Some(cutoff), TRUE)>>, "ok",
                        WithGating([region |-> ActualRegion(db.data, args.region),
                                    timeframe |-> Timeframe(gate.hours),
                                    count |-> Len(sigs),
                                    signals |-> Take(sigs, 50),
                                    breakdown |-> Breakdown(db.data, Len(db.data)),
                                    generated_at |-> GeneratedAt],
                                   gate.message))
    IN  CloudTool("get_military_signals", body, db.insert_ok)

\* search_stories(query, hours, limit)
cloud_search_stories(args, db) ==
    LET gate == _enforce_free_tier(args.hours)
        cutoff == _cutoff_iso(gate.hours)
        body ==
            IF 1 \in db.fails
            THEN Raise(<<ReadEvent("story", Some(cutoff), FALSE)>>, StoreUnavailable)
            ELSE LET stories == MapSeq(format_story, db.data)
                 IN  Return(<<ReadEvent("story", Some(cutoff), TRUE)>>, "ok",
                        WithGating([query |-> args.query,
                                    timeframe |-> Timeframe(gate.hours),
                                    count |-> Len(stories),
                                    stories |-> stories,
                                    generated_at |-> GeneratedAt],
                                   gate.message))
    IN  CloudTool("search_stories", body, db.insert_ok)

\* search_articles(query, hours, limit)
cloud_search_articles(args, db) ==
    LET gate == _enforce_free_tier(args.hours)
        cutoff == _cutoff_iso(gate.hours)
        body ==
            IF 1 \in db.fails
            THEN Raise(<<ReadEvent("news_item", Some(cutoff), FALSE)>>, StoreUnavailable)
            ELSE LET articles == MapSeq(format_article, db.data)
                 IN  Return(<<ReadEvent("news_item", Some(cutoff), TRUE)>>, "ok",
                        WithGating([query |-> args.query,
                                    timeframe |-> Timeframe(gate.hours),
                                    count |-> Len(articles),
                                    articles |-> articles,
                                    generated_at |-> GeneratedAt],
                                   gate.message))
    IN  CloudTool("search_articles", body, db.insert_ok)

\* the payload of get_signal_timeline for the rows data
TimelinePayload(data, region, h) ==
    [region |-> ActualRegion(data, region),
     timeframe |-> Timeframe(h),
     generated_at |-> GeneratedAt] @@ TimelineAggregates(data)

\* get_signal_timeline(region, hours)
cloud_get_signal_timeline(args, db) ==
    LET gate == _enforce_free_tier(args.hours)
        cutoff == _cutoff_iso(gate.hours)
        body ==
            IF 1 \in db.fails
            THEN Raise(<<ReadEvent("signal", Some(cutoff), FALSE)>>, StoreUnavailable)
            ELSE IF TimelineRaises(db.data)
            THEN Raise(<<ReadEvent("signal", Some(cutoff), TRUE)>>, <<"TypeError">>)
            ELSE Return(<<ReadEvent("signal", Some(cutoff), TRUE)>>, "ok",
                        WithGating(TimelinePayload(db.data, args.region, gate.hours),
                                   gate.message))
    IN  CloudTool("get_signal_timeline", body, db.insert_ok)

-----------------------------------------------------------------------------
(* Cloud tool server: trending stories *)

\* a plausible slip: the rpc is not wrapped in a try block of its own, so
\* that its failure is the tool's failure
Mutant_cloud_get_trending_stories_no_fallback(args, db) ==
    LET gate == _enforce_free_tier(args.hours)
        payload(data) ==
            WithGating([timeframe |-> Timeframe(gate.hours),
                        count |-> Len(data),
                        stories |-> data,
                        generated_at |-> GeneratedAt],
                       gate.message)
        body ==
            IF 1 \notin db.fails
            THEN Return(<<RpcEvent("get_trending_stories", TRUE)>>, "ok",
                        payload(db.rpc_data))
            ELSE Raise(<<RpcEvent("get_trending_stories", FALSE)>>, StoreUnavailable)
    IN  CloudTool("get_trending_stories", body, db.insert_ok)

\* get_trending_stories(hours, limit): the rpc first; when it raises, the
\* fallback read, whose failure is the tool's failure
cloud_get_trending_stories(args, db) ==
    LET gate == _enforce_free_tier(args.hours)
        cutoff == _cutoff_iso(gate.hours)
        payload(data) ==
            WithGating([timeframe |-> Timeframe(gate.hours),
                        count |-> Len(data),
                        stories |-> data,
                        generated_at |-> GeneratedAt],
                       gate.message)
        body ==
            IF 1 \notin db.fails
            THEN Return(<<RpcEvent("get_trending_stories", TRUE)>>, "ok",
                        payload(db.rpc_data))
            ELSE IF 2 \in db.fails
            THEN Raise(<<RpcEvent("get_trending_stories", FALSE),
                         ReadEvent("story", Some(cutoff), FALSE)>>, StoreUnavailable)
            ELSE Return(<<RpcEvent("get_trending_stories", FALSE),
                          ReadEvent("story", Some(cutoff), TRUE)>>, "ok",
                        payload(db.data))
    IN  CloudTool("get_trending_stories", body, db.insert_ok)

-----------------------------------------------------------------------------
(* Relationship Resolver: story detail (cloud tool server and HTTP API: the
   same reads and the same extraction) *)

\* the tables get_story_details reads, in program order
StoryDetailReads ==
    <<"story", "news_item", "story_entity_person",
      "story_entity_organisation", "story_entity_location">>

\* a plausible slip: each read has its own try/except, so that the reads
\* after a failed one are still issued
Mutant_IssuedFrom_continues(plan, k, fails) ==
    [i \in 1..(Len(plan) - k + 1) |-> ReadEvent(plan[i + k - 1], None, (i + k - 1) \notin fails)]

\* the reads issued out of plan when the k-th read raises for k in fails:
\* every read up to the first that fails, that one included
RECURSIVE IssuedFrom(_, _, _)
IssuedFrom(plan, k, fails) ==
    IF k > Len(plan) THEN <<>>
    ELSE IF k \in fails THEN <<ReadEvent(plan[k], None, FALSE)>>
    ELSE <<ReadEvent(plan[k], None, TRUE)>> \o IssuedFrom(plan, k + 1, fails)

\* a plausible slip: a failed read after the first is swallowed and read as
\* "no rows"
Mutant_AnyFails_ignored(n, fails) == FALSE

\* some read among the first n raises
AnyFails(n, fails) == \E k \in 1..n : k \in fails

\* a plausible slip: the extraction stops at the first dangling row (break
\* for continue)
Mutant_Persons_break(rows) ==
    LET dangling == {i \in 1..Len(rows) : rows[i].entity_person = None}
        n == IF dangling = {} THEN Len(rows)
             ELSE (CHOOSE i \in dangling : \A j \in dangling : i <= j) - 1
        kept == SubSeq(rows, 1, n)
    IN  [i \in 1..Len(kept) |->
            [id |-> kept[i].entity_person[1].id,
             name |-> kept[i].entity_person[1].name,
             role |-> kept[i].entity_person[1].role,
             rank |-> kept[i].rank,
             confidence |-> kept[i].confidence]]

\* persons = [... for r in persons_result.data if r.get("entity_person")]
Persons(rows) ==
    LET kept == SelectSeq(rows, LAMBDA r : r.entity_person # None)
    IN  [i \in 1..Len(kept) |->
            [id |-> kept[i].entity_person[1].id,
             name |-> kept[i].entity_person[1].name,
             role |-> kept[i].entity_person[1].role,
             rank |-> kept[i].rank,
             confidence |-> kept[i].confidence]]

\* orgs = [... for r in orgs_result.data if r.get("entity_organisation")]
Orgs(rows) ==
    LET kept == SelectSeq(rows, LAMBDA r : r.entity_organisation # None)
    IN  [i \in 1..Len(kept) |->
            [id |-> kept[i].entity_organisation[1].id,
             name |-> kept[i].entity_organisation[1].name,
             type |-> kept[i].entity_organisation[1].org_type,
             rank |-> kept[i].rank,
             confidence |-> kept[i].confidence]]

\* locations = [... for r in locations_result.data if r.get("entity_location")]
Locations(rows) ==
    LET kept == SelectSeq(rows, LAMBDA r : r.entity_location # None)
    IN  [i \in 1..Len(kept) |->
            [id |-> kept[i].entity_location[1].id,
             name |-> kept[i].entity_location[1].name,
             lat |-> kept[i].entity_location[1].lat,
             lon |-> kept[i].entity_location[1].lon,
             country_code |-> kept[i].entity_location[1].country_code,
             rank |-> kept[i].rank,
             confidence |-> kept[i].confidence]]

\* the response of get_story_details, from "Extract entity details" on
StoryDetailPayload(db) ==
    LET articles == MapSeq(format_article, db.articles)
    IN  [story |-> format_story(db.story[1]),
         article_count |-> Len(articles),
         articles |-> articles,
         entities |-> [persons |-> Persons(db.persons),
                       organisations |-> Orgs(db.orgs),
                       locations |-> Locations(db.locations)],
         generated_at |-> GeneratedAt]

\* f"Story {story_id} not found"
StoryNotFound(story_id) == <<"Story ", story_id, " not found">>

\* get_story_details(story_id), cloud tool server
cloud_get_story_details(args, db) ==
    LET body ==
            IF 1 \in db.fails
            THEN Raise(IssuedFrom(StoryDetailReads, 1, db.fails), StoreUnavailable)
            ELSE IF db.story = <<>>
            THEN Return(<<ReadEvent("story", None, TRUE)>>, "not_found",
                        ErrorPayload(StoryNotFound(args.story_id)))
            ELSE IF AnyFails(Len(StoryDetailReads), db.fails)
            THEN Raise(IssuedFrom(StoryDetailReads, 1, db.fails), StoreUnavailable)
            ELSE Return(IssuedFrom(StoryDetailReads, 1, db.fails), "ok",
                        StoryDetailPayload(db))
    IN  CloudTool("get_story_details", body, db.insert_ok)

-----------------------------------------------------------------------------
(* Entity search (cloud tool server and HTTP API: the same reads, the same
   merge, sort and truncation) *)

\* valid_types of search_entities
SearchValidTypes == {"person", "organisation", "location", "country", "all"}

\* search_types
SearchTypes(entity_type) ==
    IF entity_type # "all" THEN <<entity_type>>
    ELSE <<"person", "organisation", "location", "country">>

\* the rows of one read: at most limit of the table's matches, each given
\* entity["entity_type"] = etype
TaggedHits(db, etype, limit) ==
    LET rows == Take(db.hits[etype], limit)
    IN  [i \in 1..Len(rows) |-> [entity_type |-> etype] @@ rows[i]]

\* results after the loop has run over search_types[1..n]
RECURSIVE MergedHits(_, _, _, _)
MergedHits(db, types, n, limit) ==
    IF n = 0 THEN <<>>
    ELSE MergedHits(db, types, n - 1, limit) \o TaggedHits(db, types[n], limit)

\* the tables search_entities reads, in program order
SearchReads(types) == [i \in 1..Len(types) |-> "entity_" \o types[i]]

\* a plausible slip: results = results[:limit] before results.sort(...)
Mutant_SearchPayload_truncates_first(args, db) ==
    LET types == SearchTypes(args.entity_type)
        merged == MergedHits(db, types, Len(types), args.limit)
        sorted == RankedResults(Take(merged, args.limit), args.name)
    IN  [query |-> args.name,
         type_filter |-> args.entity_type,
         count |-> Len(sorted),
         entities |-> sorted,
         generated_at |-> GeneratedAt]

\* the response of search_entities, from "Sort by name relevance" on
SearchPayload(args, db) ==
    LET types == SearchTypes(args.entity_type)
        sorted == RankedResults(MergedHits(db, types, Len(types), args.limit), args.name)
    IN  [query |-> args.name,
         type_filter |-> args.entity_type,
         count |-> Len(Take(sorted, args.limit)),
         entities |-> Take(sorted, args.limit),
         generated_at |-> GeneratedAt]

\* f"Invalid entity type '{entity_type}'. Must be one of: {', '.join(sorted(valid_types))}"
InvalidType(entity_type, valid) ==
    <<"Invalid entity type '", entity_type, "'. Must be one of: ", valid>>

\* search_entities(name, entity_type, limit), cloud tool server
cloud_search_entities(args, db) ==
    LET types == SearchTypes(args.entity_type)
        body ==
            IF args.entity_type \notin SearchValidTypes
            THEN Return(<<>>, "invalid_type",
                        ErrorPayload(InvalidType(args.entity_type,
                            "all, country, location, organisation, person")))
            ELSE IF AnyFails(Len(types), db.fails)
            THEN Raise(IssuedFrom(SearchReads(types), 1, db.fails), StoreUnavailable)
            ELSE Return(IssuedFrom(SearchReads(types), 1, db.fails), "ok",
                        SearchPayload(args, db))
    IN  CloudTool("search_entities", body, db.insert_ok)

-----------------------------------------------------------------------------
(* Relationship Resolver: entity context (cloud tool server and HTTP API:
   the same reads, the same filter, sort and truncation) *)

\* valid_types of get_entity_context
ContextValidTypes == {"person", "organisation", "location", "country"}

\* join_config[entity_type]: (ni_join_table, fk_col, story_join_table)
join_config(entity_type) ==
    <<"news_item_entity_" \o entity_type, entity_type \o "_id",
      "story_entity_" \o entity_type>>

\* a >= b on str
StrGeq(a, b) == ~StrLess(a, b)

\* the indices 1..n of keys in the order list.sort(key=..., reverse=True)
\* leaves them: descending by key, equal keys in their original order
RECURSIVE InsertDesc(_, _, _)
InsertDesc(sorted, i, keys) ==
    IF sorted = <<>> THEN <<i>>
    ELSE IF StrLess(keys[Head(sorted)], keys[i]) THEN <<i>> \o sorted
    ELSE <<Head(sorted)>> \o InsertDesc(Tail(sorted), i, keys)

\* a plausible slip: the list is returned as the filter loop built it, the
\* sort call left out
Mutant_DescOrder_unsorted(keys, n) == [i \in 1..n |-> i]

RECURSIVE DescOrder(_, _)
DescOrder(keys, n) ==
    IF n = 0 THEN <<>> ELSE InsertDesc(DescOrder(keys, n - 1), n, keys)

\* a plausible slip: ni["published"] > cutoff, which drops the record that
\* lies exactly at the cutoff
Mutant_ContextArticles_strict(rows, cutoff) ==
    LET kept == SelectSeq(rows, LAMBDA row :
                    /\ row.news_item # None
                    /\ Truthy(row.news_item[1].published)
                    /\ StrLess(cutoff, row.news_item[1].published[1]))
        list == [i \in 1..Len(kept) |->
                    [id |-> kept[i].news_item[1].id,
                     title |-> kept[i].news_item[1].title,
                     published |-> kept[i].news_item[1].published[1],
                     link |-> kept[i].news_item[1].link,
                     sentiment |-> kept[i].news_item[1].sentiment_category]]
        order == DescOrder([i \in 1..Len(list) |-> list[i].published], Len(list))
    IN  [i \in 1..Len(list) |-> list[order[i]]]

\* articles after the filter loop and articles.sort(published, reverse=True)
ContextArticles(rows, cutoff) ==
    LET kept == SelectSeq(rows, LAMBDA row :
                    /\ row.news_item # None
                    /\ Truthy(row.news_item[1].published)
                    /\ StrGeq(row.news_item[1].published[1], cutoff))
        list == [i \in 1..Len(kept) |->
                    [id |-> kept[i].news_item[1].id,
                     title |-> kept[i].news_item[1].title,
                     published |-> kept[i].news_item[1].published[1],
                     link |-> kept[i].news_item[1].link,
                     sentiment |-> kept[i].news_item[1].sentiment_category]]
        order == DescOrder([i \in 1..Len(list) |-> list[i].published], Len(list))
    IN  [i \in 1..Len(list) |-> list[order[i]]]

\* stories after the filter loop and stories.sort(created, reverse=True)
ContextStories(rows, cutoff) ==
    LET kept == SelectSeq(rows, LAMBDA row :
                    /\ row.story # None
                    /\ Truthy(row.story[1].created)
                    /\ StrGeq(row.story[1].created[1], cutoff))
        list == [i \in 1..Len(kept) |->
                    [id |-> kept[i].story[1].id,
                     title |-> kept[i].story[1].title,
                     summary |-> kept[i].story[1].summary,
                     created |-> kept[i].story[1].created[1],
                     rank |-> kept[i].rank]]
        order == DescOrder([i \in 1..Len(list) |-> list[i].created], Len(list))
    IN  [i \in 1..Len(list) |-> list[order[i]]]

\* the tables get_entity_context reads, in program order
ContextReads(entity_type) ==
    <<"entity_" \o entity_type, join_config(entity_type)[1], join_config(entity_type)[3]>>

\* the response of get_entity_context, from "Filter by date and format" on
ContextPayload(args, db, h) ==
    LET articles == ContextArticles(db.ni_join, _cutoff_iso(h))
        stories == ContextStories(db.story_join, _cutoff_iso(h))
    IN  [entity |-> [id |-> db.entity[1].id, name |-> db.entity[1].name,
                     type |-> args.entity_type],
         timeframe |-> Timeframe(h),
         article_count |-> Len(articles),
         articles |-> Take(articles, 30),
         story_count |-> Len(stories),
         stories |-> Take(stories, 20),
         generated_at |-> GeneratedAt]

\* f"{entity_type} with id {entity_id} not found"
EntityNotFound(entity_type, entity_id) ==
    <<entity_type, " with id ", entity_id, " not found">>

\* get_entity_context(entity_id, entity_type, hours), cloud tool server
cloud_get_entity_context(args, db) ==
    LET gate == _enforce_free_tier(args.hours)
        body ==
            IF args.entity_type \notin ContextValidTypes
            THEN Return(<<>>, "invalid_type",
                        ErrorPayload(InvalidType(args.entity_type,
                            "country, location, organisation, person")))
            ELSE IF 1 \in db.fails
            THEN Raise(IssuedFrom(ContextReads(args.entity_type), 1, db.fails),
                       StoreUnavailable)
            ELSE IF db.entity = <<>>
            THEN Return(<<ReadEvent("entity_" \o args.entity_type, None, TRUE)>>,
                        "not_found",
                        ErrorPayload(EntityNotFound(args.entity_type, args.entity_id)))
            ELSE IF AnyFails(3, db.fails)
            THEN Raise(IssuedFrom(ContextReads(args.entity_type), 1, db.fails),
                       StoreUnavailable)
            ELSE Return(IssuedFrom(ContextReads(args.entity_type), 1, db.fails), "ok",
                        WithGating(ContextPayload(args, db, gate.hours), gate.message))
    IN  CloudTool("get_entity_context", body, db.insert_ok)

-----------------------------------------------------------------------------
(* HTTP API: the routes.  FastAPI checks the declared Query bounds before
   the route runs and answers 422 itself; the route body is a try block whose
   HTTPException is re-raised (where the route says so) and whose other
   exceptions become HTTPException(500, str(e)). *)

Http(status_code, payload) == [status_code |-> status_code, body |-> payload]
HttpError(status_code, detail) == [status_code |-> status_code, detail |-> detail]

\* Query(..., ge=lo, le=hi)
InRange(v, lo, hi) == lo <= v /\ v <= hi

\* Query(..., min_length=lo, max_length=hi)
LengthInRange(v, lo, hi) == lo <= Len(v) /\ Len(v) <= hi

\* the answer of the framework to a parameter outside its declared bounds
Unprocessable == Outcome(<<>>, Some(HttpError(422, <<"validation error">>)), FALSE)

\* except Exception as e: raise HTTPException(status_code=500, detail=str(e))
ApiExcept(tr, e) == Outcome(tr, Some(HttpError(500, e)), FALSE)

\* a plausible slip: the failure of the probe is answered like the failure of
\* any other route, with HTTPException(500, str(e))
Mutant_api_health_generic(db) ==
    IF 1 \in db.fails
    THEN Outcome(<<ReadEvent("news_item", None, FALSE)>>,
                 Some(HttpError(500, StoreUnavailable)), FALSE)
    ELSE Outcome(<<ReadEvent("news_item", None, TRUE)>>,
                 Some(Http(200, [status |-> "healthy", database |-> "connected"])), FALSE)

\* GET /health
api_health(db) ==
    IF 1 \in db.fails
    THEN Outcome(<<ReadEvent("news_item", None, FALSE)>>,
                 Some(HttpError(503, <<"Database unhealthy: ", StoreUnavailable[1]>>)), FALSE)
    ELSE Outcome(<<ReadEvent("news_item", None, TRUE)>>,
                 Some(Http(200, [status |-> "healthy", database |-> "connected"])), FALSE)

\* GET /briefing/latest, hours in 1..168
api_get_latest_briefing(args, db) ==
    LET cutoff == _cutoff_iso(args.hours)
    IN  IF ~InRange(args.hours, 1, 168) THEN Unprocessable
        ELSE IF 1 \in db.fails
        THEN ApiExcept(<<ReadEvent("news_item", Some(cutoff), FALSE)>>, StoreUnavailable)
        ELSE LET articles == MapSeq(format_article, db.data)
             IN  Outcome(<<ReadEvent("news_item", Some(cutoff), TRUE)>>,
                    Some(Http(200, [timeframe |-> Timeframe(args.hours),
                                    count |-> Len(articles),
                                    articles |-> Take(articles, 20),
                                    sources_active |-> SourcesActive(db.data),
                                    generated_at |-> GeneratedAt])), FALSE)

\* GET /signals/region/{region}, hours in 1..168
api_get_signals_by_region(args, db) ==
    LET cutoff == _cutoff_iso(args.hours)
    IN  IF ~InRange(args.hours, 1, 168) THEN Unprocessable
        ELSE IF 1 \in db.fails
        THEN ApiExcept(<<ReadEvent("signal", Some(cutoff), FALSE)>>, StoreUnavailable)
        ELSE LET sigs == MapSeq(format_signal, db.data)
             IN  Outcome(<<ReadEvent("signal", Some(cutoff), TRUE)>>,
                    Some(Http(200, [region |-> ActualRegion(db.data, args.region),
                                    timeframe |-> Timeframe(args.hours),
                                    count |-> Len(sigs),
                                    signals |-> Take(sigs, 50),
                                    breakdown |-> Breakdown(db.data, Len(db.data)),
                                    generated_at |-> GeneratedAt])), FALSE)

\* GET /stories/trending, hours in 1..168 and limit in 1..50: the rpc, whose
\* failure is the route's failure; the fallback read when the rpc returned no
\* row
api_get_trending_stories(args, db) ==
    LET cutoff == _cutoff_iso(args.hours)
        payload(data) ==
            Http(200, [timeframe |-> Timeframe(args.hours),
                       count |-> Len(data),
                       stories |-> data,
                       generated_at |-> GeneratedAt])
    IN  IF ~InRange(args.hours, 1, 168) \/ ~InRange(args.limit, 1, 50)
        THEN Unprocessable
        ELSE IF 1 \in db.fails
        THEN ApiExcept(<<RpcEvent("get_trending_stories", FALSE)>>, StoreUnavailable)
        ELSE IF db.rpc_data # <<>>
        THEN Outcome(<<RpcEvent("get_trending_stories", TRUE)>>,
                     Some(payload(db.rpc_data)), FALSE)
        ELSE IF 2 \in db.fails
        THEN ApiExcept(<<RpcEvent("get_trending_stories", TRUE),
                         ReadEvent("story", Some(cutoff), FALSE)>>, StoreUnavailable)
        ELSE Outcome(<<RpcEvent("get_trending_stories", TRUE),
                       ReadEvent("story", Some(cutoff), TRUE)>>,
                     Some(payload(db.data)), FALSE)

\* GET /stories/search, q of 2..200 characters, hours in 1..720, limit in
\* 1..50
api_search_stories(args, db) ==
    LET cutoff == _cutoff_iso(args.hours)
    IN  IF \/ ~LengthInRange(args.query, 2, 200)
           \/ ~InRange(args.hours, 1, 720)
           \/ ~InRange(args.limit, 1, 50)
        THEN Unprocessable
        ELSE IF 1 \in db.fails
        THEN ApiExcept(<<ReadEvent("story", Some(cutoff), FALSE)>>, StoreUnavailable)
        ELSE LET stories == MapSeq(format_story, db.data)
             IN  Outcome(<<ReadEvent("story", Some(cutoff), TRUE)>>,
                    Some(Http(200, [query |-> args.query,
                                    timeframe |-> Timeframe(args.hours),
                                    count |-> Len(stories),
                                    stories |-> stories,
                                    generated_at |-> GeneratedAt])), FALSE)

\* GET /articles/search, q of 2..200 characters, hours in 1..720, limit in
\* 1..100
api_search_articles(args, db) ==
    LET cutoff == _cutoff_iso(args.hours)
    IN  IF \/ ~LengthInRange(args.query, 2, 200)
           \/ ~InRange(args.hours, 1, 720)
           \/ ~InRange(args.limit, 1, 100)
        THEN Unprocessable
        ELSE IF 1 \in db.fails
        THEN ApiExcept(<<ReadEvent("news_item", Some(cutoff), FALSE)>>, StoreUnavailable)
        ELSE LET articles == MapSeq(format_article, db.data)
             IN  Outcome(<<ReadEvent("news_item", Some(cutoff), TRUE)>>,
                    Some(Http(200, [query |-> args.query,
                                    timeframe |-> Timeframe(args.hours),
                                    count |-> Len(articles),
                                    articles |-> articles,
                                    generated_at |-> GeneratedAt])), FALSE)

\* GET /signals/timeline/{region}, hours in 1..720
api_get_signal_timeline(args, db) ==
    LET cutoff == _cutoff_iso(args.hours)
    IN  IF ~InRange(args.hours, 1, 720) THEN Unprocessable
        ELSE IF 1 \in db.fails
        THEN ApiExcept(<<ReadEvent("signal", Some(cutoff), FALSE)>>, StoreUnavailable)
        ELSE IF TimelineRaises(db.data)
        THEN ApiExcept(<<ReadEvent("signal", Some(cutoff), TRUE)>>, <<"TypeError">>)
        ELSE Outcome(<<ReadEvent("signal", Some(cutoff), TRUE)>>,
                     Some(Http(200, TimelinePayload(db.data, args.region, args.hours))),
                     FALSE)

\* a plausible slip: the route lacks "except HTTPException: raise", so that
\* its own 404 is caught by "except Exception" and becomes a 500
Mutant_ApiReraise_swallowed(tr, status_code, detail) ==
    Outcome(tr, Some(HttpError(500, detail)), FALSE)

\* raise HTTPException(status_code, detail) inside the try block, followed by
\* except HTTPException: raise
ApiReraise(tr, status_code, detail) ==
    Outcome(tr, Some(HttpError(status_code, detail)), FALSE)

\* GET /stories/{story_id}
api_get_story_details(args, db) ==
    IF 1 \in db.fails
    THEN ApiExcept(IssuedFrom(StoryDetailReads, 1, db.fails), StoreUnavailable)
    ELSE IF db.story = <<>>
    THEN ApiReraise(<<ReadEvent("story", None, TRUE)>>, 404, StoryNotFound(args.story_id))
    ELSE IF AnyFails(Len(StoryDetailReads), db.fails)
    THEN ApiExcept(IssuedFrom(StoryDetailReads, 1, db.fails), StoreUnavailable)
    ELSE Outcome(IssuedFrom(StoryDetailReads, 1, db.fails),
                 Some(Http(200, StoryDetailPayload(db))), FALSE)

\* GET /entities/search, name of 2..200 characters, limit in 1..50
api_search_entities(args, db) ==
    LET types == SearchTypes(args.entity_type)
    IN  IF ~LengthInRange(args.name, 2, 200) \/ ~InRange(args.limit, 1, 50)
        THEN Unprocessable
        ELSE IF args.entity_type \notin SearchValidTypes
        THEN ApiReraise(<<>>, 400, InvalidType(args.entity_type,
                            "all, country, location, organisation, person"))
        ELSE IF AnyFails(Len(types), db.fails)
        THEN ApiExcept(IssuedFrom(SearchReads(types), 1, db.fails), StoreUnavailable)
        ELSE Outcome(IssuedFrom(SearchReads(types), 1, db.fails),
                     Some(Http(200, SearchPayload(args, db))), FALSE)

\* GET /entities/{entity_type}/{entity_id}/context, hours in 1..720
api_get_entity_context(args, db) ==
    IF ~InRange(args.hours, 1, 720) THEN Unprocessable
    ELSE IF args.entity_type \notin ContextValidTypes
    THEN ApiReraise(<<>>, 400, InvalidType(args.entity_type,
                        "country, location, organisation, person"))
    ELSE IF 1 \in db.fails
    THEN ApiExcept(IssuedFrom(ContextReads(args.entity_type), 1, db.fails),
                   StoreUnavailable)
    ELSE IF db.entity = <<>>
    THEN ApiReraise(<<ReadEvent("entity_" \o args.entity_type, None, TRUE)>>, 404,
                    EntityNotFound(args.entity_type, args.entity_id))
    ELSE IF AnyFails(3, db.fails)
    THEN ApiExcept(IssuedFrom(ContextReads(args.entity_type), 1, db.fails),
                   StoreUnavailable)
    ELSE Outcome(IssuedFrom(ContextReads(args.entity_type), 1, db.fails),
                 Some(Http(200, ContextPayload(args, db, args.hours))), FALSE)

-----------------------------------------------------------------------------
(* Horizon tool server: no gate, no usage meter; naive utcnow() timestamps;
   a failure is answered with {"error": str(e), "status": "failed"} *)

\* article.get("content", "")[:500] raises TypeError when the content key
\* is there and holds None: the default stands in for a missing key only
HorizonFormatArticleRaises(article) ==
    "content" \in DOMAIN article /\ article.content = None

\* format_article of horizon_server, on an article it does not raise on
horizon_format_article(article) ==
    [title |-> Get(article, "title"),
     content |-> Some(Take(IF "content" \in DOMAIN article THEN article.content[1]
                           ELSE <<>>,
                           ContentLimit)),
     published |-> Get(article, "published"),
     author |-> Get(article, "author"),
     link |-> Get(article, "link"),
     sentiment |-> Get(article, "sentiment_category")]

HorizonFormatRaises(data) ==
    \E i \in 1..Len(data) : HorizonFormatArticleRaises(data[i])

\* {"error": str(e), "status": "failed"}
HorizonFailed(e) == [error |-> e, status |-> "failed"]

\* (datetime.utcnow() - timedelta(hours=hours)).isoformat()
horizon_cutoff(h) == IsoFormat(NowHour - h, FALSE)

\* get_latest_briefing(hours, region), horizon tool server
horizon_get_latest_briefing(args, db) ==
    LET cutoff == horizon_cutoff(args.hours)
    IN  IF 1 \in db.fails
        THEN Outcome(<<ReadEvent("news_item", Some(cutoff), FALSE)>>,
                     Some(HorizonFailed(StoreUnavailable)), FALSE)
        ELSE IF HorizonFormatRaises(db.data)
        THEN Outcome(<<ReadEvent("news_item", Some(cutoff), TRUE)>>,
                     Some(HorizonFailed(<<"TypeError">>)), FALSE)
        ELSE LET articles == MapSeq(horizon_format_article, db.data)
             IN  Outcome(<<ReadEvent("news_item", Some(cutoff), TRUE)>>,
                    Some([period_hours |-> args.hours,
                          article_count |-> Len(articles),
                          source_count |->
                              Cardinality({db.data[i].author : i \in
                                  {j \in 1..Len(db.data) : Truthy(db.data[j].author)}}),
                          articles |-> articles,
                          generated_at |-> IsoFormat(NowHour, FALSE)]), FALSE)

\* get_trending_stories(hours, limit), horizon tool server
horizon_get_trending_stories(args, db) ==
    LET cutoff == horizon_cutoff(args.hours)
    IN  IF 1 \in db.fails
        THEN Outcome(<<ReadEvent("story", Some(cutoff), FALSE)>>,
                     Some(HorizonFailed(StoreUnavailable)), FALSE)
        ELSE Outcome(<<ReadEvent("story", Some(cutoff), TRUE)>>,
                     Some([period_hours |-> args.hours,
                           count |-> Len(db.data),
                           stories |-> db.data,
                           generated_at |-> IsoFormat(NowHour, FALSE)]), FALSE)

\* health_check, horizon tool server
horizon_health_check(db) ==
    IF 1 \in db.fails
    THEN Outcome(<<ReadEvent("news_item", None, FALSE)>>,
                 Some([status |-> "unhealthy", database |-> "disconnected",
                       error |-> StoreUnavailable,
                       timestamp |-> IsoFormat(NowHour, FALSE)]), FALSE)
    ELSE Outcome(<<ReadEvent("news_item", None, TRUE)>>,
                 Some([status |-> "healthy", database |-> "connected",
                       timestamp |-> IsoFormat(NowHour, FALSE)]), FALSE)

\* format_signal of horizon_server
horizon_format_signal(signal) ==
    [type |-> Get(signal, "signal_type"),
     weapon |-> Get(signal, "weapon_type"),
     location |-> Get(signal, "target_location"),
     region |-> Get(signal, "target_region"),
     direction |-> Get(signal, "direction"),
     timestamp |-> Get(signal, "created_at")]

\* get_military_signals(region, hours, signal_type), horizon tool server
horizon_get_military_signals(args, db) ==
    LET cutoff == horizon_cutoff(args.hours)
    IN  IF 1 \in db.fails
        THEN Outcome(<<ReadEvent("signal", Some(cutoff), FALSE)>>,
                     Some(HorizonFailed(StoreUnavailable)), FALSE)
        ELSE LET sigs == MapSeq(horizon_format_signal, db.data)
             IN  Outcome(<<ReadEvent("signal", Some(cutoff), TRUE)>>,
                    Some([region |-> args.region,
                          period_hours |-> args.hours,
                          count |-> Len(sigs),
                          signals |-> sigs,
                          breakdown_by_type |-> Breakdown(db.data, Len(db.data)),
                          generated_at |-> IsoFormat(NowHour, FALSE)]), FALSE)

-----------------------------------------------------------------------------
(* The rows and the arguments the handlers are tried on *)

\* "2026-03-15T11:00:00+00:00", inside every window; "2026-01-01T00:00:00+00:00",
\* outside every window
TsRecent == <<50, 48, 50, 54, 45, 48, 51, 45, 49, 53, 84, 49, 49, 58, 48, 48, 58, 48, 48, 43, 48, 48, 58, 48, 48>>
TsOld == <<50, 48, 50, 54, 45, 48, 49, 45, 48, 49, 84, 48, 48, 58, 48, 48, 58, 48, 48, 43, 48, 48, 58, 48, 48>>
\* "reuters"
StrReuters == <<114, 101, 117, 116, 101, 114, 115>>
\* "body", "Title"
StrBody == <<98, 111, 100, 121>>
StrTitle == <<84, 105, 116, 108, 101>>

ArticleA ==
    [id |-> Some("a1"), title |-> Some(StrTitle), content |-> Some(StrBody),
     published |-> Some(TsRecent), author |-> Some(StrReuters), link |-> Some("l1"),
     sentiment_category |-> Some("neutral"), story_id |-> Some("s1"),
     osint_source_id |-> Some(1)]
ArticleB ==
    [id |-> Some("a2"), title |-> Some(StrTitle), content |-> None,
     published |-> Some(TsRecent), author |-> None, link |-> None,
     sentiment_category |-> None, story_id |-> None, osint_source_id |-> Some(2)]

StoryA ==
    [id |-> Some("s1"), title |-> Some(StrTitle), summary |-> Some(StrBody),
     description |-> None, topic_keywords |-> Some(<<"war">>),
     created |-> Some(TsRecent), updated |-> Some(TsRecent), source_count |-> Some(3)]

SignalA ==
    [signal_type |-> Some(StrAir), weapon_type |-> Some(StrDrone),
     alert_type |-> None, alert_status |-> Some("active"),
     target_location |-> None, target_region |-> Some(StrKharkiv),
     direction |-> None, created_at |-> Some(TsRecent)]
SignalB ==
    [signal_type |-> None, weapon_type |-> None,
     alert_type |-> Some(StrAlert), alert_status |-> None,
     target_location |-> None, target_region |-> Some(StrKharkiv),
     direction |-> None, created_at |-> Some(Ts1435)]

\* the longest result set of a list read tried by the handlers
MaxRows == 2

ArticleData == SeqsUpTo({ArticleA, ArticleB}, MaxRows)
StoryData == SeqsUpTo({StoryA}, MaxRows)
SignalData == SeqsUpTo({SignalA, SignalB}, MaxRows)

\* the hours a caller asks for: below the documented range, inside it, at
\* the ceilings of the API (168, 720) and of the free tier (720), above them
HoursInputs == {0 - 1, 0, 1, 168, 169, 720, 721, 1000}

\* limits of a request: below the bound ge=1 a route declares, inside the
\* bounds, and above the bound le=hi
LimitInputs(hi) == {0, MaxRows, hi + 1}

\* a string longer than the max_length=200 the routes declare
LongQuery == [i \in 1..201 |-> 97]

\* the q or the name of a request: empty, one character, two, and 201
QueryInputs == {<<>>, <<97>>, StrLowerAb, LongQuery}

\* the reads that fail: none, or the k-th of n
OneFails(n) == {{}} \cup {{k} : k \in 1..n}

\* join rows of story detail: at most MaxJoin per kind, in rank order; the
\* nested entity of a row is present or absent (a dangling reference)
MaxJoin == 2

PersonRow(rank, present) ==
    [person_id |-> "p" , rank |-> Some(rank), confidence |-> None,
     entity_person |-> IF present
                       THEN Some([id |-> "p", name |-> StrLowerAb, role |-> None])
                       ELSE None]
OrgRow(rank, present) ==
    [organisation_id |-> "o", rank |-> Some(rank), confidence |-> Some(1),
     entity_organisation |-> IF present
                             THEN Some([id |-> "o", name |-> StrAbc, org_type |-> Some("ngo")])
                             ELSE None]
LocationRow(rank, present) ==
    [location_id |-> "l", rank |-> Some(rank), confidence |-> None,
     entity_location |-> IF present
                         THEN Some([id |-> "l", name |-> StrKharkiv, lat |-> Some(50),
                                    lon |-> Some(36), country_code |-> Some("UA")])
                         ELSE None]

\* the row lists of one kind: row i has rank i
JoinRows(Row(_, _)) ==
    UNION {{[i \in 1..n |-> Row(i, present[i])] : present \in [1..n -> BOOLEAN]} :
           n \in 0..MaxJoin}

\* what the store did for one get_story_details: the reads that were not
\* issued (after a failure, after an absent story) returned nothing
StoryDetailStores ==
    {[fails |-> f, insert_ok |-> ok, story |-> st, articles |-> ar,
      persons |-> pe, orgs |-> og, locations |-> lo] :
        f \in OneFails(5), ok \in BOOLEAN, st \in {<<>>, <<StoryA>>},
        ar \in {<<>>, <<ArticleA, ArticleB>>},
        pe \in JoinRows(PersonRow), og \in JoinRows(OrgRow), lo \in JoinRows(LocationRow)}

\* the stores in which only the reads that were issued returned rows
StoryDetailIssued(db) ==
    LET first == IF db.fails = {} THEN 6 ELSE CHOOSE k \in db.fails : TRUE
        last == IF first > 1 /\ db.story = <<>> THEN 1 ELSE first - 1
    IN  /\ last < 1 => db.story = <<>>
        /\ last < 2 => db.articles = <<>>
        /\ last < 3 => db.persons = <<>>
        /\ last < 4 => db.orgs = <<>>
        /\ last < 5 => db.locations = <<>>

\* join rows of entity context: at most MaxContextRows per read; the nested
\* record is recent, older than every window, without a timestamp, or absent
MaxContextRows == 1

NewsItemJoinRow(id, nested) ==
    [news_item_id |-> id,
     news_item |-> IF nested = "absent" THEN None
                   ELSE Some([id |-> id, title |-> Some(StrTitle),
                              published |-> IF nested = "recent" THEN Some(TsRecent)
                                            ELSE IF nested = "old" THEN Some(TsOld)
                                            ELSE None,
                              link |-> None, sentiment_category |-> None])]

StoryJoinRow(id, nested) ==
    [story_id |-> id, rank |-> Some(id), confidence |-> None,
     story |-> IF nested = "absent" THEN None
               ELSE Some([id |-> id, title |-> Some(StrTitle), summary |-> None,
                          created |-> IF nested = "recent" THEN Some(TsRecent)
                                      ELSE IF nested = "old" THEN Some(TsOld)
                                      ELSE None])]

NestedKinds == {"recent", "old", "undated", "absent"}

ContextRows(Row(_, _)) ==
    UNION {{[i \in 1..n |-> Row(i, kind[i])] : kind \in [1..n -> NestedKinds]} :
           n \in 0..MaxContextRows}

EntityRow == [id |-> Some("e1"), name |-> Some(StrLowerAb)]

\* the stores in which only the reads get_entity_context issued, and the
\* store answered, returned rows; reads is the number of reads answered, and
\* no read fails when none is issued
ContextIssued(args, db, checked) ==
    LET first == IF db.fails = {} THEN 4 ELSE CHOOSE k \in db.fails : TRUE
        none == ~checked \/ args.entity_type \notin ContextValidTypes
        reads == IF none THEN 0
                 ELSE IF first > 1 /\ db.entity = <<>> THEN 1 ELSE first - 1
    IN  /\ none => db.fails = {}
        /\ reads < 1 => db.entity = <<>>
        /\ reads < 2 => db.ni_join = <<>>
        /\ reads < 3 => db.story_join = <<>>

\* the matches each entity table holds: at most MaxTableHits per table
MaxTableHits == 1

TableHit(etype, i) ==
    [id |-> i,
     name |-> IF etype = "person" THEN Some(StrLowerAb)
              ELSE IF etype = "organisation" THEN Some(StrUpperAb)
              ELSE IF etype = "location" THEN Some(StrAbc)
              ELSE Some(StrCab)]

TableHits ==
    {[etype \in {"person", "organisation", "location", "country"} |->
         [i \in 1..n[etype] |-> TableHit(etype, i)]] :
     n \in [{"person", "organisation", "location", "country"} -> 0..MaxTableHits]}

\* the stores in which only the tables search_entities read returned rows
SearchIssued(args, db) ==
    LET types == SearchTypes(args.entity_type)
        first == IF db.fails = {} THEN 5 ELSE CHOOSE k \in db.fails : TRUE
        read(etype) == /\ args.entity_type \in SearchValidTypes
                       /\ \E k \in 1..Len(types) : types[k] = etype /\ k < first
    IN  /\ args.entity_type \notin SearchValidTypes => db.fails = {}
        /\ \A k \in db.fails : k <= Len(types)
        /\ \A etype \in DOMAIN db.hits : ~read(etype) => db.hits[etype] = <<>>

-----------------------------------------------------------------------------
(* The handlers as steps: an invocation enters, issues its store calls and returns *)

ToolInit ==
    /\ call = None
    /\ store = None
    /\ trace = <<>>
    /\ response = None
    /\ raised = FALSE
    /\ reference = None

\* the handlers' variables in the specifications of the other components
ToolIdle == ToolInit

(* An invocation enters its handler, issues its store calls one at a time,
   waiting for the store at each, and returns to its caller.  Between two of
   its steps the server may run the steps of the other invocations it has
   admitted.  What the store does for the invocation is db; out is what the
   handler does against db (its store calls in program order and its
   outcome) and ref the same with the usage-log insert succeeding. *)

\* no invocation has returned yet and a worker is free
Admits == call = None /\ Len(inflight) < workers

\* the server admits the invocation when a worker is free: the handler is
\* entered and has issued no store call yet
Enter(args, db, out, ref) ==
    /\ Len(inflight) < workers
    /\ inflight' = Append(inflight, [args |-> args, store |-> db, out |-> out,
                                     ref |-> ref, issued |-> 0])
    /\ UNCHANGED <<workers, usage_log, toolVars, threads, gateVars, timelineVars, rankerVars>>

\* the row a successful usage-log insert leaves in mcp_usage_log
UsageRow(e) == [tool_name |-> e.tool, response_status |-> e.what]

\* the i-th invocation in flight issues its next store call and waits for
\* the answer; a usage-log insert that succeeds adds its row to the table
StoreCall(i) ==
    /\ i \in DOMAIN inflight
    /\ inflight[i].issued < Len(inflight[i].out.trace)
    /\ LET e == inflight[i].out.trace[inflight[i].issued + 1]
       IN  /\ inflight' = [inflight EXCEPT ![i].issued = @ + 1]
           /\ usage_log' = IF e.op = "log" /\ e.ok
                           THEN Append(usage_log, UsageRow(e)) ELSE usage_log
    /\ UNCHANGED <<workers, toolVars, threads, gateVars, timelineVars, rankerVars>>

\* the sequence without its i-th element
Without(seq, i) == [j \in 1..(Len(seq) - 1) |-> IF j < i THEN seq[j] ELSE seq[j + 1]]

\* the i-th invocation in flight has issued its last store call and returns:
\* call, store, trace, response, raised and reference describe the
\* invocation that returned last
ReturnToCaller(i) ==
    /\ i \in DOMAIN inflight
    /\ inflight[i].issued = Len(inflight[i].out.trace)
    /\ call' = Some(inflight[i].args)
    /\ store' = Some(inflight[i].store)
    /\ trace' = inflight[i].out.trace
    /\ response' = inflight[i].out.response
    /\ raised' = inflight[i].out.raised
    /\ reference' = inflight[i].ref.response
    /\ inflight' = Without(inflight, i)
    /\ UNCHANGED <<workers, usage_log, threads, gateVars, timelineVars, rankerVars>>

\* the steps of the invocations in flight
Progress == \E i \in 1..workers : StoreCall(i) \/ ReturnToCaller(i)

\* a pure function applied to a record: f(record) in response and the second
\* value in reference, with no store call and nothing to wait for
Applied(args, record, out, ref) ==
    /\ call' = Some(args)
    /\ store' = Some(record)
    /\ trace' = out.trace
    /\ response' = out.response
    /\ raised' = out.raised
    /\ reference' = ref.response
    /\ UNCHANGED notToolVars

Logged(db) == [db EXCEPT !.insert_ok = TRUE]

CloudHealthEndpoint ==
    /\ Admits
    /\ \E f \in OneFails(1), ok \in BOOLEAN :
        LET args == [frontend |-> "cloud", tool |-> "health_endpoint"]
            db == [fails |-> f, insert_ok |-> ok]
        IN  Enter(args, db, cloud_health_endpoint(db), cloud_health_endpoint(Logged(db)))

CloudHealthCheck ==
    /\ Admits
    /\ \E f \in OneFails(1), ok \in BOOLEAN :
        LET args == [frontend |-> "cloud", tool |-> "health_check"]
            db == [fails |-> f, insert_ok |-> ok]
        IN  Enter(args, db, cloud_health_check(db), cloud_health_check(Logged(db)))

\* a read that failed returned no rows
ListStores(Data) ==
    {[fails |-> f, insert_ok |-> ok, data |-> d] :
        f \in OneFails(1), ok \in BOOLEAN, d \in Data} 

ListIssued(db) == db.fails # {} => db.data = <<>>

CloudGetLatestBriefing ==
    /\ Admits
    /\ \E h \in HoursInputs, db \in ListStores(ArticleData) :
        LET args == [frontend |-> "cloud", tool |-> "get_latest_briefing",
                     hours |-> h, region |-> None]
        IN  /\ ListIssued(db)
            /\ Enter(args, db, cloud_get_latest_briefing(args, db),
                      cloud_get_latest_briefing(args, Logged(db)))

CloudGetMilitarySignals ==
    /\ Admits
    /\ \E h \in HoursInputs, db \in ListStores(SignalData) :
        LET args == [frontend |-> "cloud", tool |-> "get_military_signals",
                     hours |-> h, region |-> StrKharkivLower, signal_type |-> None]
        IN  /\ ListIssued(db)
            /\ Enter(args, db, cloud_get_military_signals(args, db),
                      cloud_get_military_signals(args, Logged(db)))

CloudSearchStories ==
    /\ Admits
    /\ \E h \in HoursInputs, db \in ListStores(StoryData) :
        LET args == [frontend |-> "cloud", tool |-> "search_stories",
                     hours |-> h, query |-> StrLowerAb, limit |-> MaxRows]
        IN  /\ ListIssued(db)
            /\ Enter(args, db, cloud_search_stories(args, db),
                      cloud_search_stories(args, Logged(db)))

CloudSearchArticles ==
    /\ Admits
    /\ \E h \in HoursInputs, db \in ListStores(ArticleData) :
        LET args == [frontend |-> "cloud", tool |-> "search_articles",
                     hours |-> h, query |-> StrLowerAb, limit |-> MaxRows]
        IN  /\ ListIssued(db)
            /\ Enter(args, db, cloud_search_articles(args, db),
                      cloud_search_articles(args, Logged(db)))

CloudGetSignalTimeline ==
    /\ Admits
    /\ \E h \in HoursInputs, db \in ListStores(SeqsUpTo(SignalRows, 1)) :
        LET args == [frontend |-> "cloud", tool |-> "get_signal_timeline",
                     hours |-> h, region |-> StrKharkivLower]
        IN  /\ ListIssued(db)
            /\ Enter(args, db, cloud_get_signal_timeline(args, db),
                      cloud_get_signal_timeline(args, Logged(db)))

\* the rpc and the fallback read: either may fail; a call not made returned nothing
TrendingStores ==
    {[fails |-> f, insert_ok |-> ok, rpc_data |-> r, data |-> d] :
        f \in SUBSET {1, 2}, ok \in BOOLEAN, r \in StoryData, d \in StoryData}

CloudGetTrendingStories ==
    /\ Admits
    /\ \E h \in HoursInputs, db \in TrendingStores :
        LET args == [frontend |-> "cloud", tool |-> "get_trending_stories",
                     hours |-> h, limit |-> MaxRows]
        IN  /\ 1 \in db.fails => db.rpc_data = <<>>
            /\ (1 \notin db.fails \/ 2 \in db.fails) => db.data = <<>>
            /\ 1 \notin db.fails => 2 \notin db.fails
            /\ Enter(args, db, cloud_get_trending_stories(args, db),
                      cloud_get_trending_stories(args, Logged(db)))

CloudGetStoryDetails ==
    /\ Admits
    /\ \E db \in StoryDetailStores :
        LET args == [frontend |-> "cloud", tool |-> "get_story_details",
                     story_id |-> "s1"]
        IN  /\ StoryDetailIssued(db)
            /\ Enter(args, db, cloud_get_story_details(args, db),
                      cloud_get_story_details(args, Logged(db)))

SearchStores ==
    {[fails |-> f, insert_ok |-> ok, hits |-> h] :
        f \in OneFails(4), ok \in BOOLEAN, h \in TableHits}

SearchArgs(frontend) ==
    {[frontend |-> frontend, tool |-> "search_entities", name |-> StrLowerAb,
      entity_type |-> t, limit |-> l] :
        t \in {"all", "person", "country", "planet"}, l \in 1..2}

\* requests that GET /entities/search does not accept: a name shorter than 2
\* characters or longer than 200, a limit of 0 or of 51
UnprocessableSearchArgs ==
    {args \in {[frontend |-> "api", tool |-> "search_entities", name |-> n,
                entity_type |-> t, limit |-> l] :
                  n \in QueryInputs, t \in {"all", "planet"}, l \in LimitInputs(50)} :
        ~LengthInRange(args.name, 2, 200) \/ ~InRange(args.limit, 1, 50)}

CloudSearchEntities ==
    /\ Admits
    /\ \E args \in SearchArgs("cloud"), db \in SearchStores :
        /\ SearchIssued(args, db)
        /\ Enter(args, db, cloud_search_entities(args, db),
                  cloud_search_entities(args, Logged(db)))

ContextStores ==
    {[fails |-> f, insert_ok |-> ok, entity |-> e, ni_join |-> nj, story_join |-> sj] :
        f \in OneFails(3), ok \in BOOLEAN, e \in {<<>>, <<EntityRow>>},
        nj \in ContextRows(NewsItemJoinRow), sj \in ContextRows(StoryJoinRow)}

ContextArgs(frontend) ==
    {[frontend |-> frontend, tool |-> "get_entity_context", entity_id |-> "e1",
      entity_type |-> t, hours |-> h] :
        t \in ContextValidTypes \cup {"planet"}, h \in HoursInputs}

CloudGetEntityContext ==
    /\ Admits
    /\ \E args \in ContextArgs("cloud"), db \in ContextStores :
        /\ ContextIssued(args, db, TRUE)
        /\ Enter(args, db, cloud_get_entity_context(args, db),
                  cloud_get_entity_context(args, Logged(db)))

\* an invocation of a cloud tool arrives
CloudTools ==
    \/ CloudHealthEndpoint
    \/ CloudHealthCheck
    \/ CloudGetLatestBriefing
    \/ CloudGetMilitarySignals
    \/ CloudGetTrendingStories
    \/ CloudSearchStories
    \/ CloudGetStoryDetails
    \/ CloudSearchEntities
    \/ CloudGetEntityContext
    \/ CloudSearchArticles
    \/ CloudGetSignalTimeline

\* the HTTP API and the horizon tool server write no usage log: their stores
\* are the ones whose insert_ok is TRUE, and the reference is the run itself
ApiHealth ==
    /\ Admits
    /\ \E f \in OneFails(1) :
        LET args == [frontend |-> "api", tool |-> "health"]
            db == [fails |-> f, insert_ok |-> TRUE]
        IN  Enter(args, db, api_health(db), api_health(db))

ApiGetLatestBriefing ==
    /\ Admits
    /\ \E h \in HoursInputs, db \in ListStores(ArticleData) :
        LET args == [frontend |-> "api", tool |-> "get_latest_briefing",
                     hours |-> h, region |-> None]
            out == api_get_latest_briefing(args, db)
        IN  /\ db.insert_ok /\ ListIssued(db)
            /\ ~InRange(h, 1, 168) => db.fails = {} /\ db.data = <<>>
            /\ Enter(args, db, out, out)

ApiGetSignalsByRegion ==
    /\ Admits
    /\ \E h \in HoursInputs, db \in ListStores(SignalData) :
        LET args == [frontend |-> "api", tool |-> "get_signals_by_region",
                     hours |-> h, region |-> StrKharkivLower, signal_type |-> None]
            out == api_get_signals_by_region(args, db)
        IN  /\ db.insert_ok /\ ListIssued(db)
            /\ ~InRange(h, 1, 168) => db.fails = {} /\ db.data = <<>>
            /\ Enter(args, db, out, out)

ApiGetTrendingStories ==
    /\ Admits
    /\ \E h \in HoursInputs, l \in LimitInputs(50), db \in TrendingStores :
        LET args == [frontend |-> "api", tool |-> "get_trending_stories",
                     hours |-> h, limit |-> l]
            out == api_get_trending_stories(args, db)
            rejected == ~InRange(h, 1, 168) \/ ~InRange(l, 1, 50)
        IN  /\ db.insert_ok
            /\ rejected => db.fails = {} /\ db.rpc_data = <<>>
            /\ 1 \in db.fails => db.rpc_data = <<>> /\ 2 \notin db.fails
            /\ db.rpc_data # <<>> => 2 \notin db.fails
            /\ (2 \in db.fails \/ db.rpc_data # <<>> \/ 1 \in db.fails
                   \/ rejected) => db.data = <<>>
            /\ Enter(args, db, out, out)

ApiSearchStories ==
    /\ Admits
    /\ \E h \in HoursInputs, q \in QueryInputs, l \in LimitInputs(50),
          db \in ListStores(StoryData) :
        LET args == [frontend |-> "api", tool |-> "search_stories",
                     hours |-> h, query |-> q, limit |-> l]
            out == api_search_stories(args, db)
        IN  /\ db.insert_ok /\ ListIssued(db)
            /\ out = Unprocessable => db.fails = {} /\ db.data = <<>>
            /\ Enter(args, db, out, out)

ApiSearchArticles ==
    /\ Admits
    /\ \E h \in HoursInputs, q \in QueryInputs, l \in LimitInputs(100),
          db \in ListStores(ArticleData) :
        LET args == [frontend |-> "api", tool |-> "search_articles",
                     hours |-> h, query |-> q, limit |-> l]
            out == api_search_articles(args, db)
        IN  /\ db.insert_ok /\ ListIssued(db)
            /\ out = Unprocessable => db.fails = {} /\ db.data = <<>>
            /\ Enter(args, db, out, out)

ApiGetSignalTimeline ==
    /\ Admits
    /\ \E h \in HoursInputs, db \in ListStores(SeqsUpTo(SignalRows, 1)) :
        LET args == [frontend |-> "api", tool |-> "get_signal_timeline",
                     hours |-> h, region |-> StrKharkivLower]
            out == api_get_signal_timeline(args, db)
        IN  /\ db.insert_ok /\ ListIssued(db)
            /\ ~InRange(h, 1, 720) => db.fails = {} /\ db.data = <<>>
            /\ Enter(args, db, out, out)

ApiGetStoryDetails ==
    /\ Admits
    /\ \E db \in StoryDetailStores :
        LET args == [frontend |-> "api", tool |-> "get_story_details",
                     story_id |-> "s1"]
            out == api_get_story_details(args, db)
        IN  /\ db.insert_ok /\ StoryDetailIssued(db)
            /\ Enter(args, db, out, out)

ApiSearchEntities ==
    /\ Admits
    /\ \E args \in SearchArgs("api") \cup UnprocessableSearchArgs, db \in SearchStores :
        LET out == api_search_entities(args, db)
        IN  /\ db.insert_ok /\ SearchIssued(args, db)
            /\ out = Unprocessable =>
                    db.fails = {} /\ \A etype \in DOMAIN db.hits : db.hits[etype] = <<>>
            /\ Enter(args, db, out, out)

ApiGetEntityContext ==
    /\ Admits
    /\ \E args \in ContextArgs("api"), db \in ContextStores :
        LET out == api_get_entity_context(args, db)
        IN  /\ db.insert_ok
            /\ ContextIssued(args, db, InRange(args.hours, 1, 720))
            /\ Enter(args, db, out, out)

\* a request to a route of the HTTP API arrives
ApiRoutes ==
    \/ ApiHealth
    \/ ApiGetLatestBriefing
    \/ ApiGetSignalsByRegion
    \/ ApiGetTrendingStories
    \/ ApiSearchStories
    \/ ApiGetStoryDetails
    \/ ApiSearchEntities
    \/ ApiGetEntityContext
    \/ ApiSearchArticles
    \/ ApiGetSignalTimeline

HorizonGetLatestBriefing ==
    /\ Admits
    /\ \E h \in HoursInputs, db \in ListStores(ArticleData) :
        LET args == [frontend |-> "horizon", tool |-> "get_latest_briefing",
                     hours |-> h, region |-> None]
            out == horizon_get_latest_briefing(args, db)
        IN  /\ db.insert_ok /\ ListIssued(db)
            /\ Enter(args, db, out, out)

HorizonGetMilitarySignals ==
    /\ Admits
    /\ \E h \in HoursInputs, db \in ListStores(SignalData) :
        LET args == [frontend |-> "horizon", tool |-> "get_military_signals",
                     hours |-> h, region |-> StrKharkivLower, signal_type |-> None]
            out == horizon_get_military_signals(args, db)
        IN  /\ db.insert_ok /\ ListIssued(db)
            /\ Enter(args, db, out, out)

HorizonGetTrendingStories ==
    /\ Admits
    /\ \E h \in HoursInputs, db \in ListStores(StoryData) :
        LET args == [frontend |-> "horizon", tool |-> "get_trending_stories",
                     hours |-> h, limit |-> MaxRows]
            out == horizon_get_trending_stories(args, db)
        IN  /\ db.insert_ok /\ ListIssued(db)
            /\ Enter(args, db, out, out)

HorizonHealthCheck ==
    /\ Admits
    /\ \E f \in OneFails(1) :
        LET args == [frontend |-> "horizon", tool |-> "health_check"]
            db == [fails |-> f, insert_ok |-> TRUE]
        IN  Enter(args, db, horizon_health_check(db), horizon_health_check(db))

\* an invocation of a horizon tool arrives
HorizonTools ==
    \/ HorizonGetLatestBriefing
    \/ HorizonGetMilitarySignals
    \/ HorizonGetTrendingStories
    \/ HorizonHealthCheck

\* an invocation of any handler of any front end arrives, or one in flight
\* takes its next step
CloudNext == CloudTools \/ Progress
ApiNext == ApiRoutes \/ Progress
HorizonNext == HorizonTools \/ Progress
Next == CloudTools \/ ApiRoutes \/ HorizonTools \/ Progress

\* no handler has run; the other components are at rest
Init == ToolInit /\ GateIdle /\ TimelineIdle /\ RankerIdle /\ ThreadsIdle /\ ServerIdle

Spec == Init /\ [][Next]_vars

SpecCloud == Init /\ [][CloudNext]_vars

(* The cloud tool server with two workers: a second invocation may enter and
   run while the first waits for the store.  Story detail issues up to five
   reads and the usage-log insert; the signals list issues one read and the
   insert. *)
InitWorkers ==
    /\ ToolInit
    /\ GateIdle
    /\ TimelineIdle
    /\ RankerIdle
    /\ ThreadsIdle
    /\ workers = 2
    /\ inflight = <<>>
    /\ usage_log = <<>>

\* story detail of a story with two articles and no entity rows; every read
\* succeeds or the read of the person rows fails
WorkersGetStoryDetails ==
    /\ Admits
    /\ \E db \in StoryDetailStores :
        LET args == [frontend |-> "cloud", tool |-> "get_story_details",
                     story_id |-> "s1"]
        IN  /\ StoryDetailIssued(db)
            /\ db.fails \in {{}, {3}}
            /\ db.story # <<>> /\ db.articles # <<>>
            /\ db.persons = <<>> /\ db.orgs = <<>> /\ db.locations = <<>>
            /\ Enter(args, db, cloud_get_story_details(args, db),
                     cloud_get_story_details(args, Logged(db)))

\* the signals list over at most one row
WorkersGetMilitarySignals ==
    /\ Admits
    /\ \E h \in {0 - 1, 24}, db \in ListStores(SeqsUpTo({SignalA}, 1)) :
        LET args == [frontend |-> "cloud", tool |-> "get_military_signals",
                     hours |-> h, region |-> StrKharkivLower,
                     signal_type |-> None]
        IN  /\ ListIssued(db)
            /\ Enter(args, db, cloud_get_military_signals(args, db),
                     cloud_get_military_signals(args, Logged(db)))

WorkersNext == WorkersGetStoryDetails \/ WorkersGetMilitarySignals \/ Progress

SpecWorkers == InitWorkers /\ [][WorkersNext]_vars

InitRanker == RankerInit /\ GateIdle /\ TimelineIdle /\ ToolIdle /\ ThreadsIdle /\ ServerIdle

SpecRanker == InitRanker /\ [][RankerNext]_vars

InitTimeline == TimelineInit /\ GateIdle /\ RankerIdle /\ ToolIdle /\ ThreadsIdle /\ ServerIdle

SpecTimeline == InitTimeline /\ [][TimelineNext]_vars

InitGate == GateInit /\ TimelineIdle /\ RankerIdle /\ ToolIdle /\ ThreadsIdle /\ ServerIdle

SpecGate == InitGate /\ [][GateNext]_vars

-----------------------------------------------------------------------------
(* Entity context on dated join rows: every read succeeds and the entity
   exists; the nested records carry timestamps a whole number of hours before
   now, written as the store writes a UTC timestamp, in the form of
   isoformat(), so that a record k hours old lies exactly at the cutoff of a
   k-hour window *)

\* the ages, in hours, of the nested records: now, inside every window, at
\* and one hour beyond the cutoffs of 168 and of 720 hours
StampAges == {0, 1, 168, 169, 720, 721}

\* the nested record of a join row: absent, without a timestamp, or of an age
Stamps == {None, Some(None)} \cup {Some(Some(k)) : k \in StampAges}

DatedNewsItemRow(id, stamp) ==
    [news_item_id |-> id,
     news_item |-> IF stamp = None THEN None
                   ELSE Some([id |-> id, title |-> Some(StrTitle),
                              published |-> IF stamp[1] = None THEN None
                                            ELSE Some(IsoFormat(NowHour - stamp[1][1], TRUE)),
                              link |-> None, sentiment_category |-> None])]

DatedStoryRow(id, stamp) ==
    [story_id |-> id, rank |-> Some(id), confidence |-> None,
     story |-> IF stamp = None THEN None
               ELSE Some([id |-> id, title |-> Some(StrTitle), summary |-> None,
                          created |-> IF stamp[1] = None THEN None
                                      ELSE Some(IsoFormat(NowHour - stamp[1][1], TRUE))])]

\* the longest list of join rows enumerated over every nested record
MaxDatedRows == 2

\* the longest list of join rows tried against the truncation to 30 and to 20
MaxLongRows == 31

LongLens == {19, 20, 21, 29, 30} \cup (31..MaxLongRows)

\* the age of the i-th of n rows of a long list: newest first, oldest first,
\* in no order (pairwise distinct ages), in three ages that repeat
LongOrders == {"newest first", "oldest first", "mixed", "ties"}

LongAge(order, i, n) ==
    IF order = "newest first" THEN i
    ELSE IF order = "oldest first" THEN n + 1 - i
    ELSE IF order = "mixed" THEN ((i * 7) % 37) + 1
    ELSE 1 + (i % 3)

\* the lists of nested records the join reads return
StampLists ==
    SeqsUpTo(Stamps, MaxDatedRows)
        \cup {[i \in 1..n |-> Some(Some(LongAge(order, i, n)))] :
                  n \in LongLens, order \in LongOrders}

\* both join reads return the rows of one list of nested records
DatedStore(stamps) ==
    [fails |-> {}, insert_ok |-> TRUE, entity |-> <<EntityRow>>,
     ni_join |-> [i \in 1..Len(stamps) |-> DatedNewsItemRow(i, stamps[i])],
     story_join |-> [i \in 1..Len(stamps) |-> DatedStoryRow(i, stamps[i])]]

DatedArgs(frontend, h) ==
    [frontend |-> frontend, tool |-> "get_entity_context", entity_id |-> "e1",
     entity_type |-> "person", hours |-> h]

CloudResolveContext ==
    /\ Admits
    /\ \E h \in HoursInputs, stamps \in StampLists :
        LET args == DatedArgs("cloud", h)
            db == DatedStore(stamps)
            out == cloud_get_entity_context(args, db)
        IN  Enter(args, db, out, out)

\* a request outside 1..720 is answered 422 before any read
ApiResolveContext ==
    /\ Admits
    /\ \E h \in HoursInputs, stamps \in StampLists :
        LET args == DatedArgs("api", h)
            db == DatedStore(IF InRange(h, 1, 720) THEN stamps ELSE <<>>)
            out == api_get_entity_context(args, db)
        IN  /\ ~InRange(h, 1, 720) => stamps = <<>>
            /\ Enter(args, db, out, out)

ContextNext == CloudResolveContext \/ ApiResolveContext \/ Progress

SpecContext == Init /\ [][ContextNext]_vars

-----------------------------------------------------------------------------
(* Timeline Aggregator on rows that exercise the "or" chain and the weapon
   test: both type fields set, an empty signal_type, an empty weapon_type,
   two weapons *)

\* "missile"
StrMissile == <<109, 105, 115, 115, 105, 108, 101>>

\* (signal_type, alert_type): both set, an empty signal_type, neither
MixedTypePairs ==
    {<<Some(StrAir), Some(StrAlert)>>, <<Some(<<>>), Some(StrAlert)>>, <<None, None>>}
MixedWeaponTypes == {None, Some(<<>>), Some(StrDrone), Some(StrMissile)}

MixedRows ==
    {[signal_type |-> tp[1], alert_type |-> tp[2], weapon_type |-> w,
      target_region |-> Some(StrKharkiv), created_at |-> Some(ts)] :
        tp \in MixedTypePairs, w \in MixedWeaponTypes, ts \in {Ts1435, Ts1500}}

InitBreakdown ==
    /\ signals \in SeqsUpTo(MixedRows, MaxSignals)
    /\ timeline_out = None
    /\ GateIdle
    /\ RankerIdle
    /\ ToolIdle
    /\ ThreadsIdle
    /\ ServerIdle

SpecBreakdown == InitBreakdown /\ [][TimelineNext]_vars

-----------------------------------------------------------------------------
(* Response Formatter as a function of one record.  A record is a dict: a
   key may be missing, hold None, or hold a value.  The formatter is applied
   to the record, and once more to its own output. *)

\* a str of n characters
StrOfLen(n) == [i \in 1..n |-> 97 + (i % 26)]

\* the lengths of content tried: around the truncation limit
ContentLens == {1, 3, ContentLimit - 1, ContentLimit, ContentLimit + 1}

\* an article without its content key: every field set, every field null,
\* no other key at all, the sentiment only
ArticleBases ==
    {[id |-> Some("a1"), title |-> Some(StrTitle), published |-> Some(TsRecent),
      author |-> Some(StrReuters), link |-> Some("l1"),
      sentiment_category |-> Some("neutral"), story_id |-> Some("s1"),
      osint_source_id |-> Some(1)],
     [id |-> None, title |-> None, published |-> None, author |-> None,
      link |-> None, sentiment_category |-> None, story_id |-> None],
     [title |-> Some(StrTitle)],
     [id |-> Some("a2"), sentiment_category |-> Some("negative")]}

\* the content key: missing, None, "", or a str of one of the lengths
ArticleRecords ==
    ArticleBases
    \cup {("content" :> c) @@ base :
            base \in ArticleBases,
            c \in {None, Some(<<>>)} \cup {Some(StrOfLen(n)) : n \in ContentLens}}

SignalRecords ==
    {SignalA, SignalB,
     [signal_type |-> None, weapon_type |-> None, alert_type |-> None,
      alert_status |-> None, target_location |-> None, target_region |-> None,
      direction |-> None, created_at |-> None],
     [direction |-> Some("north"), alert_type |-> Some(StrAlert),
      alert_status |-> Some("active")],
     [weapon_type |-> Some(StrDrone)]}

StoryRecords ==
    {StoryA,
     [id |-> Some("s2"), title |-> Some(StrTitle), summary |-> None,
      description |-> None, topic_keywords |-> None, created |-> Some(Ts1435),
      updated |-> Some(Ts1500), source_count |-> None],
     [id |-> Some("s3"), created |-> Some(Ts1435)],
     [id |-> None, title |-> None, summary |-> None, description |-> None,
      topic_keywords |-> None, created |-> None, updated |-> None,
      source_count |-> None]}

\* the formatter was applied to record and returned once, and was applied to
\* what it returned (twice); or it raised
Formatted(frontend, formatter, record, raises, once, twice) ==
    LET args == [frontend |-> frontend, tool |-> formatter]
    IN  IF raises
        THEN Applied(args, record, Outcome(<<>>, None, TRUE), Outcome(<<>>, None, TRUE))
        ELSE Applied(args, record, Outcome(<<>>, Some(once), FALSE),
                    Outcome(<<>>, Some(twice), FALSE))

FormatArticle ==
    /\ call = None
    /\ \E frontend \in {"api", "cloud"}, article \in ArticleRecords :
        Formatted(frontend, "format_article", article, FALSE,
                  format_article(article), format_article(format_article(article)))

HorizonFormatArticle ==
    /\ call = None
    /\ \E article \in ArticleRecords :
        IF HorizonFormatArticleRaises(article)
        THEN Formatted("horizon", "format_article", article, TRUE, None, None)
        ELSE Formatted("horizon", "format_article", article, FALSE,
                       horizon_format_article(article),
                       horizon_format_article(horizon_format_article(article)))

FormatSignal ==
    /\ call = None
    /\ \E frontend \in {"api", "cloud"}, signal \in SignalRecords :
        Formatted(frontend, "format_signal", signal, FALSE,
                  format_signal(signal), format_signal(format_signal(signal)))

HorizonFormatSignal ==
    /\ call = None
    /\ \E signal \in SignalRecords :
        Formatted("horizon", "format_signal", signal, FALSE,
                  horizon_format_signal(signal),
                  horizon_format_signal(horizon_format_signal(signal)))

FormatStory ==
    /\ call = None
    /\ \E frontend \in {"api", "cloud"}, story \in StoryRecords :
        Formatted(frontend, "format_story", story, FALSE,
                  format_story(story), format_story(format_story(story)))

FormatterNext ==
    \/ FormatArticle
    \/ HorizonFormatArticle
    \/ FormatSignal
    \/ HorizonFormatSignal
    \/ FormatStory

SpecFormatter == Init /\ [][FormatterNext]_vars

-----------------------------------------------------------------------------
(* Entity search over tables that hold more matches than the limit.  The
   matches of a table are listed in the order in which the store returns
   them; the read is .ilike("name", f"%{name}%").limit(limit), without an
   order. *)

\* the most matches the person table holds
MaxSearchHits == 3

\* the names that match "ab": two exact matches that differ in case, a
\* prefix match, a substring match
MatchingNames == {StrLowerAb, StrUpperAb, StrAbc, StrCab}

\* the matches of the person table: ids number them in store order
PersonMatches ==
    {[i \in 1..Len(names) |-> [id |-> i, name |-> Some(names[i])]] :
        names \in SeqsUpTo(MatchingNames, MaxSearchHits)}

\* the organisation table holds no match or one, the other tables none
SearchTables ==
    {[person |-> pe, organisation |-> og, location |-> <<>>, country |-> <<>>] :
        pe \in PersonMatches,
        og \in {<<>>, <<[id |-> 9, name |-> Some(StrAbd)]>>}}

RankArgs(frontend) ==
    {[frontend |-> frontend, tool |-> "search_entities", name |-> StrLowerAb,
      entity_type |-> t, limit |-> l] : t \in {"person", "all"}, l \in 1..2}

CloudRankSearch ==
    /\ Admits
    /\ \E args \in RankArgs("cloud"), hits \in SearchTables :
        LET db == [fails |-> {}, insert_ok |-> TRUE, hits |-> hits]
            out == cloud_search_entities(args, db)
        IN  /\ SearchIssued(args, db)
            /\ Enter(args, db, out, out)

ApiRankSearch ==
    /\ Admits
    /\ \E args \in RankArgs("api"), hits \in SearchTables :
        LET db == [fails |-> {}, insert_ok |-> TRUE, hits |-> hits]
            out == api_search_entities(args, db)
        IN  /\ SearchIssued(args, db)
            /\ Enter(args, db, out, out)

SearchNext == CloudRankSearch \/ ApiRankSearch \/ Progress

SpecSearch == Init /\ [][SearchNext]_vars

-----------------------------------------------------------------------------
(* Trending stories asked of both front ends over the same store: the route
   GET /stories/trending answers in response, with its store calls in trace;
   the cloud tool's outcome on the same store is kept in reference. *)

\* hours inside the range 1..168 that both front ends accept unchanged
TrendingHours == {1, 24, 100, 168}

\* what the rpc does (fails, returns no row, returns rows) and what the
\* story table does (fails, returns its rows) whichever front end asks
SharedTrendingStores ==
    {db \in TrendingStores :
        /\ (1 \in db.fails => db.rpc_data = <<>>)
        /\ (2 \in db.fails => db.data = <<>>)}

TrendingOnBoth ==
    /\ Admits
    /\ \E h \in TrendingHours, db \in SharedTrendingStores :
        LET args(frontend) == [frontend |-> frontend, tool |-> "get_trending_stories",
                               hours |-> h, limit |-> MaxRows]
            api == api_get_trending_stories(args("api"), db)
            cloud == cloud_get_trending_stories(args("cloud"), db)
        IN  Enter(args("both"), db, api, [response |-> Some(cloud)])

TrendingNext == TrendingOnBoth \/ Progress

SpecTrending == Init /\ [][TrendingNext]_vars

-----------------------------------------------------------------------------
(* Concurrent invocations.  The cloud tools are plain functions that the
   server runs on worker threads, and every store call of a route is a point
   at which another invocation may run.  Each invocation is a thread with
   its own arguments and locals (results, result, response); the threads
   share the store, which no step changes, and the usage-log table, to which
   a cloud tool appends its row and which no handler reads.  store is the
   shared store and trace the usage-log inserts in the order they were made. *)

\* the number of concurrent invocations
NumThreads == 2

\* search_entities of the cloud tool server, GET /signals/timeline of the API
ThreadArgs ==
    {[frontend |-> "cloud", tool |-> "search_entities", name |-> StrLowerAb,
      entity_type |-> "person", limit |-> 1],
     [frontend |-> "cloud", tool |-> "search_entities", name |-> StrLowerAb,
      entity_type |-> "all", limit |-> 2],
     [frontend |-> "cloud", tool |-> "search_entities", name |-> StrLowerAb,
      entity_type |-> "planet", limit |-> 1],
     [frontend |-> "api", tool |-> "get_signal_timeline", hours |-> 24,
      region |-> StrKharkivLower]}

\* the store the invocations share: every read succeeds
SharedStores ==
    {[fails |-> {}, insert_ok |-> ok, data |-> d,
      hits |-> [person |-> <<[id |-> 1, name |-> Some(StrAbc)],
                             [id |-> 2, name |-> Some(StrLowerAb)]>>,
                organisation |-> <<[id |-> 9, name |-> Some(StrUpperAb)]>>,
                location |-> <<>>,
                country |-> <<[id |-> 7, name |-> Some(StrCab)]>>]] :
        ok \in BOOLEAN, d \in {<<>>, <<SignalA, SignalB>>}}

\* an invocation at its entry: results = [] is a local of the invocation
Entered(args) ==
    [args |-> args, pc |-> "start", k |-> 1, results |-> <<>>, issued |-> <<>>,
     status |-> "ok", response |-> None]

InitConcurrent ==
    /\ threads \in [1..NumThreads -> {Entered(args) : args \in ThreadArgs}]
    /\ store \in {Some(db) : db \in SharedStores}
    /\ call = None
    /\ trace = <<>>
    /\ response = None
    /\ raised = FALSE
    /\ reference = None
    /\ GateIdle
    /\ TimelineIdle
    /\ RankerIdle
    /\ ServerIdle

\* a plausible slip: results is a module-level list that every invocation of
\* search_entities extends
Mutant_Accumulate_shared(ths, t, rows) ==
    [u \in DOMAIN ths |->
        IF ths[u].args.tool = "search_entities" /\ ths[u].pc # "done"
        THEN [ths[u] EXCEPT !.results = @ \o rows]
        ELSE ths[u]]

\* results.extend(result.data) on the invocation's own list
Accumulate(ths, t, rows) == [ths EXCEPT ![t].results = @ \o rows]

\* the entry of the handler up to its first store call: the check of the
\* entity kind
ThreadStart(t) ==
    /\ threads[t].pc = "start"
    /\ LET args == threads[t].args
       IN  IF args.tool = "search_entities" /\ args.entity_type \notin SearchValidTypes
           THEN threads' = [threads EXCEPT
                    ![t].pc = "log",
                    ![t].status = "invalid_type",
                    ![t].response = Some(ErrorPayload(InvalidType(args.entity_type,
                                        "all, country, location, organisation, person")))]
           ELSE threads' = [threads EXCEPT ![t].pc = "read"]
    /\ UNCHANGED <<gateVars, timelineVars, rankerVars, toolVars, serverVars>>

\* one store call and what the handler does with its rows
ThreadRead(t) ==
    /\ threads[t].pc = "read"
    /\ LET args == threads[t].args
           db == store[1]
       IN  IF args.tool = "search_entities"
           THEN LET types == SearchTypes(args.entity_type)
                    k == threads[t].k
                    read == [Accumulate(threads, t, TaggedHits(db, types[k], args.limit))
                                EXCEPT ![t].issued = @ \o <<ReadEvent(SearchReads(types)[k], None, TRUE)>>]
                IN  threads' = [read EXCEPT ![t].k = k + 1,
                                            ![t].pc = IF k = Len(types) THEN "rank" ELSE "read"]
           ELSE threads' = [threads EXCEPT
                    ![t].results = db.data,
                    ![t].issued = <<ReadEvent("signal", Some(_cutoff_iso(args.hours)), TRUE)>>,
                    ![t].pc = "rank"]
    /\ UNCHANGED <<gateVars, timelineVars, rankerVars, toolVars, serverVars>>

\* after the last store call: results.sort(key=sort_key) reorders the
\* invocation's list in place, or the aggregation; and the payload
ThreadRank(t) ==
    /\ threads[t].pc = "rank"
    /\ LET args == threads[t].args
           mine == threads[t].results
       IN  IF args.tool = "search_entities"
           THEN LET sorted == RankedResults(mine, args.name)
                IN  threads' = [threads EXCEPT
                        ![t].pc = "log",
                        ![t].results = sorted,
                        ![t].response = Some([query |-> args.name,
                                              type_filter |-> args.entity_type,
                                              count |-> Len(Take(sorted, args.limit)),
                                              entities |-> Take(sorted, args.limit),
                                              generated_at |-> GeneratedAt])]
           ELSE threads' = [threads EXCEPT
                    ![t].pc = "done",
                    ![t].response = Some(Http(200, TimelinePayload(mine, args.region,
                                                                   args.hours)))]
    /\ UNCHANGED <<gateVars, timelineVars, rankerVars, toolVars, serverVars>>

\* _log_usage(...) of a cloud tool, then return: the one write to shared state
ThreadLog(t) ==
    /\ threads[t].pc = "log"
    /\ LET log == _log_usage(threads[t].args.tool, threads[t].status, store[1].insert_ok)
       IN  /\ threads' = [threads EXCEPT ![t].pc = "done",
                                         ![t].issued = @ \o <<log.event>>]
           /\ trace' = trace \o <<log.event>>
    /\ UNCHANGED <<gateVars, timelineVars, rankerVars, serverVars,
                   call, store, response, raised, reference>>

ConcurrentNext ==
    \E t \in 1..NumThreads :
        ThreadStart(t) \/ ThreadRead(t) \/ ThreadRank(t) \/ ThreadLog(t)

SpecConcurrent == InitConcurrent /\ [][ConcurrentNext]_vars

-----------------------------------------------------------------------------
\* the sum of the count fields of tl[1..n]
RECURSIVE SumCounts(_, _)
SumCounts(tl, n) == IF n = 0 THEN 0 ELSE SumCounts(tl, n - 1) + tl[n].count

(* C1: every input record is counted in exactly one hourly bucket (the
   buckets' hours are pairwise distinct, every record's hour has a bucket,
   and a bucket's count is the number of records of its hour), and the
   buckets' counts sum to the number of input records, total_signals. *)
C1_BucketsPartitionInput ==
    timeline_out # None =>
        LET out == timeline_out[1]
            tl == out.timeline
            hourOf(i) == IF Len(signals[i].created_at[1]) >= 13
                         THEN SubSeq(signals[i].created_at[1], 1, 13) \o <<58, 48, 48>>
                         ELSE signals[i].created_at[1]
        IN  /\ \A i, j \in 1..Len(tl) : tl[i].hour = tl[j].hour => i = j
            /\ \A i \in 1..Len(signals) :
                   Cardinality({b \in 1..Len(tl) : tl[b].hour = hourOf(i)}) = 1
            /\ \A b \in 1..Len(tl) :
                   tl[b].count = Cardinality({i \in 1..Len(signals) : hourOf(i) = tl[b].hour})
            /\ SumCounts(tl, Len(tl)) = Len(signals)
            /\ out.total_signals = Len(signals)

\* three records, two of one hour (one of them cut from a full timestamp, one
\* exactly 13 characters long) and one with a short timestamp: two buckets
C1_Witness ==
    /\ timeline_out # None
    /\ Len(signals) = 3
    /\ \E i, j, k \in 1..3 :
           /\ signals[i].created_at = Some(Ts1435)
           /\ signals[j].created_at = Some(TsHour)
           /\ signals[k].created_at = Some(TsDate)
    /\ Len(timeline_out[1].timeline) = 2
    /\ \E b \in 1..2 : timeline_out[1].timeline[b].count = 2

-----------------------------------------------------------------------------
\* the claim's key: tier 0 for a case-insensitive exact match, 1 for a
\* case-insensitive prefix match, 2 otherwise; then the lowercased name
ClaimTier(e) ==
    LET n == Lower(IF e.name = None THEN <<>> ELSE e.name[1])
        q == Lower(name)
    IN  IF n = q THEN 0
        ELSE IF Len(n) >= Len(q) /\ SubSeq(n, 1, Len(q)) = q THEN 1
        ELSE 2

ClaimName(e) == Lower(IF e.name = None THEN <<>> ELSE e.name[1])

ClaimKeyLeq(a, b) ==
    \/ ClaimTier(a) < ClaimTier(b)
    \/ /\ ClaimTier(a) = ClaimTier(b)
       /\ (ClaimName(a) = ClaimName(b) \/ StrLess(ClaimName(a), ClaimName(b)))

ClaimKeyEq(a, b) ==
    ClaimTier(a) = ClaimTier(b) /\ ClaimName(a) = ClaimName(b)

PermutationsOf(n) ==
    {p \in [1..n -> 1..n] : \A i, j \in 1..n : p[i] = p[j] => i = j}

(* C8: the ranked list is the stable sort of the merged input by (tier,
   lowercased name): it is the input rearranged, tiers are non-decreasing,
   names are non-decreasing within a tier, and records with equal keys keep
   their insertion order. *)
C8_RankedIsStableSort ==
    ranked # None =>
        LET out == ranked[1]
            n == Len(results)
        IN  /\ Len(out) = n
            /\ \E p \in PermutationsOf(n) :
                   /\ \A i \in 1..n : out[i] = results[p[i]]
                   /\ \A i, j \in 1..n :
                          (i < j /\ ClaimKeyEq(out[i], out[j])) => p[i] < p[j]
            /\ \A i, j \in 1..n : i < j =>
                   /\ ClaimTier(out[i]) <= ClaimTier(out[j])
                   /\ ClaimKeyLeq(out[i], out[j])

\* a substring match, a prefix match and the two exact matches "AB", "ab"
\* come in that order and leave as "AB", "ab", prefix, substring
C8_Witness ==
    /\ ranked # None
    /\ name = StrLowerAb
    /\ Len(results) = 4
    /\ results[1].id = 5 /\ results[2].id = 3
    /\ results[3].id = 2 /\ results[4].id = 1
    /\ ranked[1][1].id = 2 /\ ranked[1][2].id = 1
    /\ ranked[1][3].id = 3 /\ ranked[1][4].id = 5

-----------------------------------------------------------------------------
(* C2: for every integer h, h <= 720 gives (h, None) and h > 720 gives
   (720, advisory) with a non-null advisory that names both 720 and h;
   clamp(500) = (500, None) and clamp(1000) = (720, non-null). *)
C2_GateContract ==
    gate_out # None =>
        /\ hours <= 720 => gate_out[1] = [hours |-> hours, message |-> None]
        /\ hours > 720 =>
            /\ gate_out[1].hours = 720
            /\ gate_out[1].message # None
            /\ Contains(gate_out[1].message[1], Digits(720))
            /\ Contains(gate_out[1].message[1], Digits(hours))
        /\ hours = 500 => gate_out[1] = [hours |-> 500, message |-> None]
        /\ hours = 1000 => gate_out[1].hours = 720 /\ gate_out[1].message # None

C2_Witness ==
    /\ hours = 1000
    /\ gate_out # None
    /\ gate_out[1].hours = 720
    /\ gate_out[1].message # None

(* C3 as stated: applying the gate to the hours it returned gives a result
   equal to the first result, in the hours and in the advisory. *)
C3_Original ==
    gate_again # None => gate_again[1] = gate_out[1]

(* C3 amended: the gate is idempotent in its hours component, and the second
   application never carries an advisory; so the two results are equal
   exactly when the request did not exceed the ceiling. *)
C3_HoursIdempotent ==
    gate_again # None =>
        /\ gate_again[1].hours = gate_out[1].hours
        /\ gate_again[1].message = None
        /\ (gate_again[1] = gate_out[1]) <=> (hours <= 720)

C3_Witness ==
    /\ gate_again # None
    /\ hours > 720
    /\ gate_again[1].hours = 720
    /\ gate_out[1].message # None

-----------------------------------------------------------------------------
\* the payload of a response: the body of an HTTP answer, the returned
\* mapping of a tool
Body(resp) == IF "body" \in DOMAIN resp THEN resp.body ELSE resp

HasGating(resp) == "gating_message" \in DOMAIN Body(resp)

\* an error answer: HTTP 4xx/5xx, {"status": "error", ...} or
\* {"error": ..., "status": "failed"}
IsError(resp) == "detail" \in DOMAIN resp \/ "error" \in DOMAIN resp

\* the positions of the trace at which the usage-log insert was attempted,
\* and those at which the store was read
LogAttempts == {i \in DOMAIN trace : trace[i].op = "log"}
StoreReads == {i \in DOMAIN trace : trace[i].op \in {"read", "rpc"}}

\* the invocation took an hours parameter
TakesHours == call # None /\ "hours" \in DOMAIN call[1]

\* the invocation ran the gate on a request above the ceiling: the cloud
\* tool server runs it first thing in the try block, get_entity_context after
\* its check of the entity kind; the other front ends have no gate
Clamped ==
    /\ call[1].frontend = "cloud"
    /\ call[1].tool = "get_entity_context" => call[1].entity_type \in ContextValidTypes
    /\ call[1].hours > FREE_TIER_MAX_HOURS

(* C4 as stated: on every path by which a tool with an hours parameter
   returns, the response has a gating_message field if and only if the
   requested hours exceeded the ceiling and were clamped. *)
C4_Original ==
    (TakesHours /\ response # None) => (HasGating(response[1]) <=> Clamped)

(* C4 amended: a response has a gating_message field if and only if the
   requested hours were clamped and the invocation returned its success
   payload; the field then holds the advisory of the gate.  An error payload
   (store failure, entity not found) never has the field, clamped or not. *)
C4_GatingOnSuccessOnly ==
    (TakesHours /\ response # None) =>
        /\ HasGating(response[1]) <=> (Clamped /\ ~IsError(response[1]))
        /\ HasGating(response[1]) =>
               Body(response[1]).gating_message = GatingMessage(call[1].hours)

\* a clamped request answered with the advisory, and a request within the
\* ceiling answered without it, are both reachable; the first is the witness
C4_Witness ==
    /\ TakesHours
    /\ call[1].tool = "get_signal_timeline"
    /\ call[1].hours = 1000
    /\ response # None
    /\ ~IsError(response[1])
    /\ HasGating(response[1])
    /\ trace[1].cutoff = Some(_cutoff_iso(FREE_TIER_MAX_HOURS))

(* C5: when the usage-log insert fails, _log_usage raises nothing to its
   caller, and the invocation returns exactly the response it returns when
   the insert succeeds. *)
C5_UsageMeterIsolated ==
    (call # None /\ ~store[1].insert_ok) =>
        /\ ~raised
        /\ response # None
        /\ response = reference

C5_Witness ==
    /\ call # None
    /\ call[1].tool = "get_story_details"
    /\ ~store[1].insert_ok
    /\ trace[Len(trace)].op = "log"
    /\ ~trace[Len(trace)].ok
    /\ response = reference
    /\ "entities" \in DOMAIN response[1]

(* C6: every invocation of a cloud tool or of the /health route attempts the
   usage-log insert exactly once, on the success path, on an invalid entity
   kind, on an absent primary record and on a store failure at any read; the
   attempt follows every store read of the invocation and a response is
   returned after it. *)
C6_LoggedExactlyOnceLast ==
    call # None =>
        /\ Cardinality(LogAttempts) = 1
        /\ LogAttempts = {Len(trace)}
        /\ \A i \in StoreReads : i < Len(trace)
        /\ response # None

\* a store failure at the third read of story detail: three reads, then the
\* one usage-log attempt with status error
C6_Witness ==
    /\ call # None
    /\ call[1].tool = "get_story_details"
    /\ store[1].fails = {3}
    /\ Len(trace) = 4
    /\ StoreReads = {1, 2, 3}
    /\ trace[4].op = "log"
    /\ trace[4].what = "error"

(* C7 as stated: no handler of the HTTP API or of any tool server returns a
   response without a usage-log record having been attempted. *)
C7_Original ==
    (call # None /\ response # None) => LogAttempts # {}

(* C7 amended: a handler attempts a usage-log record if and only if it is a
   handler of the cloud tool server; the routes of the HTTP API and the tools
   of the horizon tool server return without any attempt. *)
C7_OnlyCloudReports ==
    (call # None /\ response # None) =>
        (LogAttempts # {} <=> call[1].frontend = "cloud")

\* the timeline route of the HTTP API answered 200 and attempted no record
C7_Witness ==
    /\ call # None
    /\ call[1].frontend = "api"
    /\ call[1].tool = "get_signal_timeline"
    /\ response # None
    /\ response[1].status_code = 200
    /\ StoreReads = {1}
    /\ LogAttempts = {}

-----------------------------------------------------------------------------
\* the story read found no row
StoryAbsent ==
    /\ call # None
    /\ call[1].tool = "get_story_details"
    /\ 1 \notin store[1].fails
    /\ store[1].story = <<>>

(* C9: story detail with an id that matches no story fails with NotFound
   (HTTP 404, or the error payload "Story <id> not found"), and its only
   store read is the read of the story: no linked-article read, no
   entity-join read. *)
C9_AbsentStoryNotFound ==
    StoryAbsent =>
        /\ response # None
        /\ call[1].frontend = "api" =>
               /\ response[1].status_code = 404
               /\ response[1].detail = <<"Story ", call[1].story_id, " not found">>
        /\ call[1].frontend = "cloud" =>
               response[1] = [status |-> "error",
                              error |-> <<"Story ", call[1].story_id, " not found">>]
        /\ StoreReads = {1}
        /\ trace[1].what = "story"

C9_Witness ==
    /\ StoryAbsent
    /\ call[1].frontend = "api"
    /\ response # None
    /\ response[1].status_code = 404
    /\ Len(trace) = 1

-----------------------------------------------------------------------------
\* every read of story detail succeeded and the story exists
StoryResolved ==
    /\ call # None
    /\ call[1].tool = "get_story_details"
    /\ store[1].fails = {}
    /\ store[1].story # <<>>

\* out lists exactly the rows whose nested entity (field nested) is present,
\* in the order of rows: same number, ranks ascending as in rows (row i has
\* rank i), and each element carries the id and the name of its row's entity
ListsPresentRows(out, rows, nested) ==
    LET present == {i \in 1..Len(rows) : rows[i][nested] # None}
    IN  /\ Len(out) = Cardinality(present)
        /\ {out[k].rank : k \in 1..Len(out)} = {rows[i].rank : i \in present}
        /\ \A k \in 1..Len(out) : \A l \in 1..Len(out) :
               k < l => out[k].rank[1] < out[l].rank[1]
        /\ \A k \in 1..Len(out) : \E i \in present :
               /\ rows[i].rank = out[k].rank
               /\ rows[i][nested][1].id = out[k].id
               /\ rows[i][nested][1].name = out[k].name

(* C10: for each kind (person, organisation, location) the resolved entity
   list holds exactly the join rows whose nested entity is present, in the
   order the store returned them; a row whose nested entity is absent is
   left out and the invocation still returns its success payload. *)
C10_DanglingRowsDropped ==
    StoryResolved =>
        /\ response # None
        /\ ~IsError(response[1])
        /\ LET entities == Body(response[1]).entities
           IN  /\ ListsPresentRows(entities.persons, store[1].persons, "entity_person")
               /\ ListsPresentRows(entities.organisations, store[1].orgs,
                                   "entity_organisation")
               /\ ListsPresentRows(entities.locations, store[1].locations,
                                   "entity_location")

\* a dangling person row ahead of a resolved one: the list holds the second
C10_Witness ==
    /\ StoryResolved
    /\ Len(store[1].persons) = 2
    /\ store[1].persons[1].entity_person = None
    /\ store[1].persons[2].entity_person # None
    /\ response # None
    /\ Len(Body(response[1]).entities.persons) = 1
    /\ Body(response[1]).entities.persons[1].rank = Some(2)

-----------------------------------------------------------------------------
\* the two decimal digits of s at positions i and i + 1
Num2(s, i) == (s[i] - 48) * 10 + (s[i + 1] - 48)

\* the days of 2026 before month m
RECURSIVE DaysBefore(_)
DaysBefore(m) == IF m = 1 THEN 0 ELSE DaysBefore(m - 1) + MonthDays[m - 1]

\* the whole hours from 2026-01-01T00 to the hour a timestamp of 2026 names;
\* the timestamps of the dated rows and every cutoff agree below the hour,
\* so that one is at or after the other exactly when its hour is
HourOf(ts) == (DaysBefore(Num2(ts, 6)) + Num2(ts, 9) - 1) * 24 + Num2(ts, 12)

\* the window the cutoff is taken from: the requested hours, which the cloud
\* tool server first clamps to the ceiling
EffectiveHours ==
    IF call[1].frontend = "cloud" /\ call[1].hours > FREE_TIER_MAX_HOURS
    THEN FREE_TIER_MAX_HOURS ELSE call[1].hours

\* entity context returned its success payload
ContextResolved ==
    /\ call # None
    /\ call[1].tool = "get_entity_context"
    /\ response # None
    /\ ~IsError(response[1])

\* the nested record exists, its timestamp (field stamp) is non-null and at
\* or after now - hours
Qualifies(nested, stamp) ==
    /\ nested # None
    /\ nested[1][stamp] # None
    /\ HourOf(nested[1][stamp][1]) >= NowHour - EffectiveHours

\* the ids of the join rows that qualify, and the ids a returned list holds
QualifyingArticles ==
    {store[1].ni_join[i].news_item_id : i \in
        {j \in 1..Len(store[1].ni_join) :
            Qualifies(store[1].ni_join[j].news_item, "published")}}
QualifyingStories ==
    {store[1].story_join[i].story_id : i \in
        {j \in 1..Len(store[1].story_join) :
            Qualifies(store[1].story_join[j].story, "created")}}
Ids(list) == {list[i].id : i \in 1..Len(list)}

(* C11 as stated: an article (a story) is returned for a join row if and
   only if its nested record exists, has a non-null timestamp, and that
   timestamp is at or after the cutoff. *)
C11_Original ==
    ContextResolved =>
        /\ Ids(Body(response[1]).articles) = QualifyingArticles
        /\ Ids(Body(response[1]).stories) = QualifyingStories

(* C11 amended: an article (a story) is returned only for a join row whose
   nested record exists, has a non-null timestamp, and that timestamp is at
   or after the cutoff, a record exactly at the cutoff included; every such
   row is counted in article_count (story_count), and is returned unless the
   list already holds 30 articles (20 stories). *)
C11_KeptUpToTruncation ==
    ContextResolved =>
        LET body == Body(response[1])
        IN  /\ Ids(body.articles) \subseteq QualifyingArticles
            /\ body.article_count = Cardinality(QualifyingArticles)
            /\ Ids(body.articles) # QualifyingArticles => Len(body.articles) = 30
            /\ Ids(body.stories) \subseteq QualifyingStories
            /\ body.story_count = Cardinality(QualifyingStories)
            /\ Ids(body.stories) # QualifyingStories => Len(body.stories) = 20

\* a 168-hour window over a record exactly at the cutoff and a record one
\* hour older: the first alone is returned
C11_Witness ==
    /\ ContextResolved
    /\ call[1].hours = 168
    /\ Len(store[1].ni_join) = 2
    /\ store[1].ni_join[1].news_item # None
    /\ store[1].ni_join[2].news_item # None
    /\ store[1].ni_join[1].news_item[1].published = Some(_cutoff_iso(168))
    /\ store[1].ni_join[2].news_item[1].published = Some(_cutoff_iso(169))
    /\ Ids(Body(response[1]).articles) = {1}
    /\ Ids(Body(response[1]).stories) = {1}

\* the hours of the timestamps (field stamp) of a returned list
Hours(list, stamp) == [i \in 1..Len(list) |-> HourOf(list[i][stamp])]

\* list is in descending order of stamp, holds min(limit, number qualifying)
\* elements, and no qualifying row left out is newer than a returned one
NewestFirst(list, stamp, limit, rows, id, nested, qualifying) ==
    /\ \A i \in 1..Len(list) : \A j \in 1..Len(list) :
           i < j => Hours(list, stamp)[i] >= Hours(list, stamp)[j]
    /\ Len(list) = IF Cardinality(qualifying) < limit
                   THEN Cardinality(qualifying) ELSE limit
    /\ \A r \in 1..Len(rows) :
           (rows[r][id] \in qualifying /\ rows[r][id] \notin Ids(list)) =>
               \A i \in 1..Len(list) :
                   HourOf(rows[r][nested][1][stamp][1]) <= Hours(list, stamp)[i]

(* C12: the kept articles are returned in descending order of published,
   at most 30 of them, and the kept stories in descending order of created,
   at most 20 of them; the returned lists are the newest 30 (20) of the
   kept rows. *)
C12_NewestFirstTruncated ==
    ContextResolved =>
        /\ NewestFirst(Body(response[1]).articles, "published", 30,
                       store[1].ni_join, "news_item_id", "news_item",
                       QualifyingArticles)
        /\ NewestFirst(Body(response[1]).stories, "created", 20,
                       store[1].story_join, "story_id", "story",
                       QualifyingStories)

\* 31 rows inside the window, returned by the store oldest first: the 30
\* newest articles and the 20 newest stories, newest first
C12_Witness ==
    /\ ContextResolved
    /\ call[1].hours = 168
    /\ Len(store[1].ni_join) = 31
    /\ store[1].ni_join[1].news_item[1].published = Some(_cutoff_iso(31))
    /\ store[1].ni_join[31].news_item[1].published = Some(_cutoff_iso(1))
    /\ Len(Body(response[1]).articles) = 30
    /\ Body(response[1]).articles[1].id = 31
    /\ Body(response[1]).articles[30].id = 2
    /\ Len(Body(response[1]).stories) = 20
    /\ Body(response[1]).stories[20].id = 12

-----------------------------------------------------------------------------
\* an entity-context invocation, and the statuses it reported to the usage log
ContextCall == call # None /\ call[1].tool = "get_entity_context"
UsageStatuses == {trace[i].what : i \in LogAttempts}

\* the route body ran: the framework did not answer 422 for the hours
RouteRan == call[1].frontend = "api" => InRange(call[1].hours, 1, 720)

\* the answer is Internal: HTTP 500, or an invocation logged as "error"
Internal ==
    \/ "error" \in UsageStatuses
    \/ response # None /\ "status_code" \in DOMAIN response[1]
                       /\ response[1].status_code = 500

EntityAbsent ==
    /\ ContextCall
    /\ call[1].entity_type \in ContextValidTypes
    /\ RouteRan
    /\ 1 \notin store[1].fails
    /\ store[1].entity = <<>>

(* C13: an entity-context request with an entity kind outside {person,
   organisation, location, country} is answered InvalidArgument (HTTP 400,
   or the "Invalid entity type" payload logged as "invalid_type") before
   any store read; a valid kind whose entity row is absent is answered
   NotFound (HTTP 404, or the "not found" payload logged as "not_found")
   after the one read of the entity; neither is Internal. *)
C13_KindAndAbsenceAreCallerErrors ==
    /\ (ContextCall /\ call[1].entity_type \notin ContextValidTypes) =>
        /\ StoreReads = {}
        /\ ~Internal
        /\ ~raised
        /\ response # None
        /\ (call[1].frontend = "api" /\ RouteRan) =>
               /\ response[1].status_code = 400
               /\ response[1].detail[1] = "Invalid entity type '"
               /\ response[1].detail[2] = call[1].entity_type
        /\ call[1].frontend = "cloud" =>
               /\ response[1].status = "error"
               /\ response[1].error[1] = "Invalid entity type '"
               /\ response[1].error[2] = call[1].entity_type
               /\ UsageStatuses = {"invalid_type"}
    /\ EntityAbsent =>
        /\ StoreReads = {1}
        /\ trace[1].what = "entity_" \o call[1].entity_type
        /\ ~Internal
        /\ ~raised
        /\ response # None
        /\ call[1].frontend = "api" =>
               /\ response[1].status_code = 404
               /\ response[1].detail =
                      <<call[1].entity_type, " with id ", call[1].entity_id, " not found">>
        /\ call[1].frontend = "cloud" =>
               /\ response[1] =
                      [status |-> "error",
                       error |-> <<call[1].entity_type, " with id ",
                                   call[1].entity_id, " not found">>]
               /\ UsageStatuses = {"not_found"}

C13_Witness ==
    /\ ContextCall
    /\ call[1].frontend = "cloud"
    /\ call[1].entity_type = "planet"
    /\ call[1].hours > FREE_TIER_MAX_HOURS
    /\ trace = <<LogEvent("get_entity_context", "invalid_type", TRUE)>>
    /\ response # None
    /\ response[1].status = "error"

-----------------------------------------------------------------------------
\* the hour key of the claim: the first 13 characters and ":00" for a
\* timestamp of 13 characters or more, the timestamp itself otherwise
ClaimHour(ts) ==
    IF Len(ts) >= 13 THEN [i \in 1..16 |-> IF i <= 13 THEN ts[i] ELSE <<58, 48, 48>>[i - 13]]
    ELSE ts

\* the aggregation has run
Aggregated == timeline_out # None

\* the positions of signals that fall in the bucket of the hour key
InBucket(hour) ==
    {i \in 1..Len(signals) : ClaimHour(signals[i].created_at[1]) = hour}

(* C14: the hour key of a signal is the first 13 characters of its timestamp
   followed by ":00" when the timestamp has at least 13 characters
   ("2026-02-24T14:35:00+00:00" gives "2026-02-24T14:00"), and the timestamp
   itself when it is shorter: the hours of the timeline are exactly these
   keys of the input signals. *)
C14_HourKeyTruncates ==
    Aggregated =>
        LET tl == timeline_out[1].timeline
        IN  /\ {tl[b].hour : b \in 1..Len(tl)} =
                   {ClaimHour(signals[i].created_at[1]) : i \in 1..Len(signals)}
            /\ \A i \in 1..Len(signals) :
                   signals[i].created_at[1] =
                       <<50, 48, 50, 54, 45, 48, 50, 45, 50, 52, 84, 49, 52, 58, 51, 53,
                         58, 48, 48, 43, 48, 48, 58, 48, 48>> =>
                   \E b \in 1..Len(tl) :
                       tl[b].hour = <<50, 48, 50, 54, 45, 48, 50, 45, 50, 52, 84, 49, 52,
                                      58, 48, 48>>

\* a full timestamp and a short one: the first is cut to its hour, the
\* second is its own key
C14_Witness ==
    /\ Aggregated
    /\ Len(signals) = 2
    /\ signals[1].created_at = Some(Ts1435)
    /\ signals[2].created_at = Some(TsDate)
    /\ Len(timeline_out[1].timeline) = 2
    /\ timeline_out[1].timeline[1].hour = TsDate
    /\ timeline_out[1].timeline[2].hour = Key14

(* C15: the timeline is in strictly ascending order of hour key, whatever
   the order in which the store returned the signals, and
   hours_with_activity is the number of distinct hour keys of the input. *)
C15_TimelineAscending ==
    Aggregated =>
        LET tl == timeline_out[1].timeline
        IN  /\ \A b \in 1..Len(tl), c \in 1..Len(tl) :
                   b < c => StrLess(tl[b].hour, tl[c].hour)
            /\ timeline_out[1].hours_with_activity =
                   Cardinality({ClaimHour(signals[i].created_at[1]) : i \in 1..Len(signals)})
            /\ timeline_out[1].hours_with_activity = Len(tl)

\* the store returned the newest signal first: the timeline is the reverse
C15_Witness ==
    /\ Aggregated
    /\ Len(signals) = 3
    /\ signals[1].created_at = Some(Ts1500)
    /\ signals[2].created_at = Some(Ts1435)
    /\ signals[3].created_at = Some(TsDate)
    /\ timeline_out[1].hours_with_activity = 3
    /\ timeline_out[1].timeline[1].hour = TsDate
    /\ timeline_out[1].timeline[2].hour = Key14
    /\ timeline_out[1].timeline[3].hour = Key15

-----------------------------------------------------------------------------
\* a nullable str that is neither null nor empty
ClaimPresent(v) == v # <<>> /\ v[1] # <<>>

\* the effective type of the claim: signal_type, else alert_type, else
\* "unknown"
ClaimType(signal) ==
    IF ClaimPresent(signal.signal_type) THEN signal.signal_type[1]
    ELSE IF ClaimPresent(signal.alert_type) THEN signal.alert_type[1]
    ELSE <<117, 110, 107, 110, 111, 119, 110>>

\* the sum of the values of the dict d over the keys in S
RECURSIVE SumOver(_, _)
SumOver(d, S) ==
    IF S = {} THEN 0
    ELSE LET k == CHOOSE x \in S : TRUE
         IN  d[k] + SumOver(d, S \ {k})

SumValues(d) == SumOver(d, DOMAIN d)

(* C16: in every bucket each signal is counted under exactly one type, its
   effective type (signal_type, else alert_type, else "unknown"): by_type
   holds, for each effective type of the bucket's signals and for no other
   key, the number of the bucket's signals of that type, and the values of
   by_type sum to the bucket's count. *)
C16_ByTypePartitionsBucket ==
    Aggregated =>
        LET tl == timeline_out[1].timeline
        IN  \A b \in 1..Len(tl) :
                LET members == InBucket(tl[b].hour)
                IN  /\ DOMAIN tl[b].by_type = {ClaimType(signals[i]) : i \in members}
                    /\ \A k \in DOMAIN tl[b].by_type :
                           tl[b].by_type[k] =
                               Cardinality({i \in members : ClaimType(signals[i]) = k})
                    /\ SumValues(tl[b].by_type) = tl[b].count

\* one bucket of three signals: both type fields set, an empty signal_type
\* with an alert_type, neither
C16_Witness ==
    /\ Aggregated
    /\ Len(signals) = 3
    /\ \A i \in 1..3 : signals[i].created_at = Some(Ts1435)
    /\ signals[1].signal_type = Some(StrAir) /\ signals[1].alert_type = Some(StrAlert)
    /\ signals[2].signal_type = Some(<<>>) /\ signals[2].alert_type = Some(StrAlert)
    /\ signals[3].signal_type = None /\ signals[3].alert_type = None
    /\ Len(timeline_out[1].timeline) = 1
    /\ timeline_out[1].timeline[1].by_type = (StrAir :> 1) @@ (StrAlert :> 1) @@ (Unknown :> 1)

(* C17: a signal without a weapon_type adds to no weapon entry, in its
   bucket and in weapon_totals: by_weapon and weapon_totals hold, for each
   weapon_type present on a signal and for no other key, the number of
   signals carrying it, so that their values sum to the number of signals
   with a weapon_type, which is at most the count. *)
C17_WeaponsCountedWhenPresent ==
    Aggregated =>
        LET out == timeline_out[1]
            tl == out.timeline
            armed == {i \in 1..Len(signals) : ClaimPresent(signals[i].weapon_type)}
        IN  /\ \A b \in 1..Len(tl) :
                   LET members == InBucket(tl[b].hour) \cap armed
                   IN  /\ DOMAIN tl[b].by_weapon =
                              {signals[i].weapon_type[1] : i \in members}
                       /\ \A k \in DOMAIN tl[b].by_weapon :
                              tl[b].by_weapon[k] =
                                  Cardinality({i \in members : signals[i].weapon_type[1] = k})
                       /\ SumValues(tl[b].by_weapon) = Cardinality(members)
                       /\ SumValues(tl[b].by_weapon) <= tl[b].count
            /\ DOMAIN out.weapon_totals = {signals[i].weapon_type[1] : i \in armed}
            /\ \A k \in DOMAIN out.weapon_totals :
                   out.weapon_totals[k] =
                       Cardinality({i \in armed : signals[i].weapon_type[1] = k})
            /\ SumValues(out.weapon_totals) = Cardinality(armed)
            /\ SumValues(out.weapon_totals) <= out.total_signals

\* one bucket of three signals: a null weapon_type, an empty one, a drone
C17_Witness ==
    /\ Aggregated
    /\ Len(signals) = 3
    /\ \A i \in 1..3 : signals[i].created_at = Some(Ts1500)
    /\ signals[1].weapon_type = None
    /\ signals[2].weapon_type = Some(<<>>)
    /\ signals[3].weapon_type = Some(StrDrone)
    /\ timeline_out[1].timeline[1].count = 3
    /\ timeline_out[1].timeline[1].by_weapon = (StrDrone :> 1)
    /\ timeline_out[1].weapon_totals = (StrDrone :> 1)

\* the sum over the buckets tl[1..n] of field[key], a bucket without the key
\* adding nothing
RECURSIVE SumBuckets(_, _, _, _)
SumBuckets(tl, n, field, key) ==
    IF n = 0 THEN 0
    ELSE SumBuckets(tl, n - 1, field, key)
         + (IF key \in DOMAIN tl[n][field] THEN tl[n][field][key] ELSE 0)

(* C18: type_totals holds, for every key of some bucket's by_type and for no
   other key, the sum of by_type[key] over the buckets; weapon_totals
   likewise for by_weapon. *)
C18_TotalsSumBuckets ==
    Aggregated =>
        LET out == timeline_out[1]
            tl == out.timeline
        IN  /\ DOMAIN out.type_totals = UNION {DOMAIN tl[b].by_type : b \in 1..Len(tl)}
            /\ \A k \in DOMAIN out.type_totals :
                   out.type_totals[k] = SumBuckets(tl, Len(tl), "by_type", k)
            /\ DOMAIN out.weapon_totals = UNION {DOMAIN tl[b].by_weapon : b \in 1..Len(tl)}
            /\ \A k \in DOMAIN out.weapon_totals :
                   out.weapon_totals[k] = SumBuckets(tl, Len(tl), "by_weapon", k)

\* two buckets that share a type and a weapon, and a third signal of another
\* type in the first bucket
C18_Witness ==
    /\ Aggregated
    /\ Len(signals) = 3
    /\ signals[1].created_at = Some(Ts1435)
    /\ signals[2].created_at = Some(Ts1500)
    /\ signals[3].created_at = Some(Ts1435)
    /\ signals[1].alert_type = Some(StrAlert) /\ signals[1].signal_type = Some(<<>>)
    /\ signals[2].alert_type = Some(StrAlert) /\ signals[2].signal_type = Some(<<>>)
    /\ signals[3].signal_type = Some(StrAir)
    /\ \A i \in 1..3 : signals[i].weapon_type = Some(StrMissile)
    /\ Len(timeline_out[1].timeline) = 2
    /\ timeline_out[1].type_totals = (StrAlert :> 2) @@ (StrAir :> 1)
    /\ timeline_out[1].weapon_totals = (StrMissile :> 3)

-----------------------------------------------------------------------------
\* an invocation of an operation that issues several store reads
MultiRead ==
    /\ call # None
    /\ call[1].tool \in {"get_story_details", "get_entity_context", "search_entities"}

\* the positions of the trace at which a store read failed
FailedReads == {i \in StoreReads : ~trace[i].ok}

(* C19: when a store read of story detail, entity context or entity search
   fails, the caller receives the error outcome and nothing else: HTTP 500
   with the store's message, or the mapping {status: "error", error: the
   store's message}, with no field of the operation's payload. *)
C19_FailedReadGivesOnlyError ==
    (MultiRead /\ FailedReads # {}) =>
        /\ ~raised
        /\ response # None
        /\ call[1].frontend = "api" =>
               response[1] = [status_code |-> 500, detail |-> <<"StoreUnavailable">>]
        /\ call[1].frontend = "cloud" =>
               response[1] = [status |-> "error", error |-> <<"StoreUnavailable">>]

\* story detail whose story and linked articles were read and whose read of
\* the person join rows failed
C19_Witness ==
    /\ call # None
    /\ call[1].tool = "get_story_details"
    /\ call[1].frontend = "api"
    /\ store[1].story # <<>>
    /\ store[1].articles # <<>>
    /\ Len(trace) = 3
    /\ trace[1].ok /\ trace[2].ok /\ ~trace[3].ok
    /\ response # None
    /\ response[1].status_code = 500

-----------------------------------------------------------------------------
\* the rpc of trending stories on the cloud tool server failed: the one
\* failure after which the code reads the store again, the fallback read of
\* the story table
FallbackTaken ==
    /\ call # None
    /\ call[1].frontend = "cloud"
    /\ call[1].tool = "get_trending_stories"
    /\ 1 \in FailedReads

\* the reads issued after position i
ReadsAfter(i) == {j \in StoreReads : j > i}

(* C20 as stated: once a store read has failed, the invocation issues no
   further store read and ends with an error outcome. *)
C20_Original ==
    (call # None /\ FailedReads # {}) =>
        /\ \A i \in FailedReads : ReadsAfter(i) = {}
        /\ ~raised
        /\ response # None
        /\ IsError(response[1])

(* C20: no operation repeats a failed store call, and the usage-log insert
   is attempted at most once.  Once a store read has failed, the invocation
   issues no further store read and ends with an error outcome, except that
   the cloud tool server's trending stories answers a failed rpc with one
   fallback read of the story table: when that read succeeds the tool
   returns its rows as a success, and when it fails the tool reads nothing
   more and ends with an error outcome. *)
C20_NoReadAfterFailureButFallback ==
    (call # None /\ FailedReads # {}) =>
        /\ ~raised
        /\ response # None
        /\ Cardinality(LogAttempts) <= 1
        /\ \A i \in FailedReads : \A j \in ReadsAfter(i) : trace[j].what # trace[i].what
        /\ ~FallbackTaken =>
               /\ \A i \in FailedReads : ReadsAfter(i) = {}
               /\ IsError(response[1])
        /\ FallbackTaken =>
               /\ StoreReads = {1, 2}
               /\ trace[1].op = "rpc"
               /\ trace[2].op = "read" /\ trace[2].what = "story"
               /\ trace[2].ok => ~IsError(response[1])
               /\ ~trace[2].ok => IsError(response[1])

\* the rpc fails, the fallback read returns rows, and the tool answers with
\* them
C20_Witness ==
    /\ FallbackTaken
    /\ Len(trace) = 3
    /\ trace[2].ok
    /\ store[1].data # <<>>
    /\ response # None
    /\ "stories" \in DOMAIN response[1]
    /\ response[1].stories = store[1].data

-----------------------------------------------------------------------------
\* the cutoffs now - N hours with N no greater than the free-tier ceiling,
\* as the aware and as the naive clock write them; N ranges down to the
\* lowest request tried
CeilingCutoffs ==
    {IsoFormat(NowHour - n, aware) : n \in (0 - 1)..720, aware \in BOOLEAN}

\* the cutoffs the invocation passed to the store
ReadCutoffs == {trace[i].cutoff[1] : i \in {j \in StoreReads : trace[j].cutoff # None}}

(* C21 as stated: in every invocation through any front end, every cutoff
   passed to a store read, and the cutoff entity context filters with, is
   now - N hours with N no greater than 720, whatever hours were
   requested. *)
C21_Original ==
    call # None =>
        /\ ReadCutoffs \subseteq CeilingCutoffs
        /\ (ContextCall /\ response # None /\ "articles" \in DOMAIN Body(response[1])) =>
               \A i \in DOMAIN Body(response[1]).articles :
                   StrGeq(Body(response[1]).articles[i].published,
                          IsoFormat(NowHour - 720, TRUE))

\* the front ends that bound the window: the HTTP API by its declared query
\* ranges, the cloud tool server by the gate
C21_BoundedFrontEnds ==
    (call # None /\ call[1].frontend \in {"api", "cloud"}) =>
        /\ ReadCutoffs \subseteq CeilingCutoffs
        /\ (ContextCall /\ response # None /\ "articles" \in DOMAIN Body(response[1])) =>
               \A i \in DOMAIN Body(response[1]).articles :
                   StrGeq(Body(response[1]).articles[i].published,
                          IsoFormat(NowHour - 720, TRUE))

\* the horizon tool server reads 1000 hours back
C21_Unbounded ==
    /\ call # None
    /\ call[1].frontend = "horizon"
    /\ call[1].hours = 1000
    /\ ReadCutoffs = {IsoFormat(NowHour - 1000, FALSE)}

-----------------------------------------------------------------------------
\* an invocation of a health probe: GET /health of the HTTP API and of the
\* cloud server, the health_check tool of the cloud and horizon servers
HealthCall ==
    /\ call # None
    /\ call[1].tool \in {"health", "health_endpoint", "health_check"}

\* the probe read one row of news_item, and nothing else
OneProbeRead ==
    /\ StoreReads = {1}
    /\ trace[1].op = "read"
    /\ trace[1].what = "news_item"

\* the status field of the answer, None when it has none
StatusOf(resp) == IF "status" \in DOMAIN Body(resp) THEN Some(Body(resp).status) ELSE None

(* C22 as stated: the health probe of every front end performs exactly one
   store read; it reports status "healthy" when the read succeeds and status
   "unhealthy" with the store's error as text when the read fails. *)
C22_Original ==
    HealthCall =>
        /\ OneProbeRead
        /\ response # None
        /\ trace[1].ok => StatusOf(response[1]) = Some("healthy")
        /\ ~trace[1].ok =>
               /\ StatusOf(response[1]) = Some("unhealthy")
               /\ response[1].error = <<"StoreUnavailable">>

(* C22: the health probe of every front end performs exactly one store read,
   of news_item, and reports status "healthy" when it succeeds.  When it
   fails the store's error is surfaced as text, under a label that depends
   on the front end: status "unhealthy" from GET /health of the cloud server
   (with HTTP 503) and from the horizon tool, status "error" from the cloud
   tool, and HTTP 503 with the detail "Database unhealthy: <error>" from the
   HTTP API. *)
C22_ProbeReadsOnceAndSurfacesError ==
    HealthCall =>
        /\ OneProbeRead
        /\ ~raised
        /\ response # None
        /\ trace[1].ok => StatusOf(response[1]) = Some("healthy")
        /\ ~trace[1].ok =>
               /\ call[1].tool = "health_endpoint" =>
                      /\ response[1].status = "unhealthy"
                      /\ response[1].error = <<"StoreUnavailable">>
                      /\ response[1].status_code = 503
               /\ (call[1].tool = "health_check" /\ call[1].frontend = "horizon") =>
                      /\ response[1].status = "unhealthy"
                      /\ response[1].error = <<"StoreUnavailable">>
               /\ (call[1].tool = "health_check" /\ call[1].frontend = "cloud") =>
                      response[1] = [status |-> "error", error |-> <<"StoreUnavailable">>]
               /\ call[1].tool = "health" =>
                      response[1] = [status_code |-> 503,
                                     detail |-> <<"Database unhealthy: ", "StoreUnavailable">>]

\* the probe of the cloud tool fails: one read, status "error"
C22_Witness ==
    /\ HealthCall
    /\ call[1].tool = "health_check"
    /\ call[1].frontend = "cloud"
    /\ OneProbeRead
    /\ ~trace[1].ok
    /\ response # None
    /\ response[1].status = "error"

-----------------------------------------------------------------------------
\* the formatter named tool was applied to the record held in store
FormatterCall(tool) == call # None /\ call[1].tool = tool

\* the value a dict holds under a key, null when the key is missing
ClaimField(d, k) == IF k \in DOMAIN d THEN d[k] ELSE <<>>

\* the first 500 characters of the content, "" when it is missing or null
ClaimContent(d) ==
    LET c == ClaimField(d, "content")
        text == IF c = <<>> THEN <<>> ELSE c[1]
    IN  [i \in 1..(IF Len(text) < 500 THEN Len(text) ELSE 500) |-> text[i]]

\* the article's other public fields are those of the record, null when
\* missing
ArticleFieldsPassed(out, d) ==
    /\ out.title = ClaimField(d, "title")
    /\ out.published = ClaimField(d, "published")
    /\ out.author = ClaimField(d, "author")
    /\ out.link = ClaimField(d, "link")
    /\ out.sentiment = ClaimField(d, "sentiment_category")

(* C23 as stated: format_article of every front end never fails on a missing
   or null content; its output content is the first 500 characters of the
   record's content, the empty string when the content is missing or null,
   and every other missing optional field is passed through as null. *)
C23_Original ==
    FormatterCall("format_article") =>
        /\ ~raised
        /\ response # None
        /\ response[1].content = <<ClaimContent(store[1])>>
        /\ ArticleFieldsPassed(response[1], store[1])

\* the statement for the formatter of the HTTP API and of the cloud server
C23_ApiAndCloud ==
    (FormatterCall("format_article") /\ call[1].frontend \in {"api", "cloud"}) =>
        /\ ~raised
        /\ response # None
        /\ response[1].content = <<ClaimContent(store[1])>>
        /\ ArticleFieldsPassed(response[1], store[1])
        /\ response[1].id = ClaimField(store[1], "id")
        /\ response[1].story_id = ClaimField(store[1], "story_id")

\* the formatter of the horizon server raises on an article whose content
\* key holds null
C23_HorizonRaises ==
    /\ FormatterCall("format_article")
    /\ call[1].frontend = "horizon"
    /\ "content" \in DOMAIN store[1]
    /\ store[1].content = <<>>
    /\ raised
    /\ response = <<>>

-----------------------------------------------------------------------------
\* a formatter returned
Formatted1 ==
    /\ call # None
    /\ call[1].tool \in {"format_article", "format_signal", "format_story"}
    /\ ~raised

(* C24 as stated: each formatter is idempotent, f(f(r)) = f(r) for every
   record r. *)
C24_Original == Formatted1 => reference = response

\* out with null under each of the keys
Nulled(out, keys) == [k \in DOMAIN out |-> IF k \in keys THEN <<>> ELSE out[k]]

\* the output fields a formatter reads from a differently named key of its
\* input
Renamed ==
    IF call[1].tool = "format_article" THEN {"sentiment"}
    ELSE IF call[1].tool = "format_signal"
    THEN {"type", "weapon", "location", "region", "timestamp"}
    ELSE {}

(* C24: format_story is idempotent.  format_article and format_signal are
   not: applied to its own output a formatter keeps the fields whose output
   name is also the name it reads (and the truncated content), and returns
   null for the fields it renames (sentiment; type, weapon, location, region,
   timestamp), so that f(f(r)) = f(r) exactly when those fields of f(r) are
   null. *)
C24_IdempotentUpToRenamedFields ==
    Formatted1 =>
        /\ response # None /\ reference # None
        /\ reference[1] = Nulled(response[1], Renamed)
        /\ call[1].tool = "format_story" => reference = response
        /\ reference = response <=> \A k \in Renamed : response[1][k] = <<>>

\* a story with different created and updated stamps, formatted twice, and
\* an article whose sentiment is lost by the second application
C24_Witness ==
    /\ Formatted1
    /\ call[1].tool = "format_story"
    /\ response # None
    /\ response[1].created # <<>>
    /\ response[1].updated # <<>>
    /\ response[1].created # response[1].updated
    /\ reference = response

C24_SentimentLost ==
    /\ Formatted1
    /\ call[1].tool = "format_article"
    /\ call[1].frontend = "cloud"
    /\ response[1].sentiment = <<"neutral">>
    /\ reference[1].sentiment = <<>>
    /\ reference[1].content = response[1].content

-----------------------------------------------------------------------------
\* entity search returned its payload
SearchReturned ==
    /\ call # None
    /\ call[1].tool = "search_entities"
    /\ response # None
    /\ "entities" \in DOMAIN Body(response[1])

\* lowercase of a nullable name, "" for null
ClaimLower(v) == Lower(IF v = <<>> THEN <<>> ELSE v[1])

\* the name equals the query, case aside
ExactMatch(e) == ClaimLower(e.name) = ClaimLower(<<call[1].name>>)

\* the tier of the claim: 0 exact, 1 prefix, 2 otherwise
SearchTier(e) ==
    LET n == ClaimLower(e.name)
        q == ClaimLower(<<call[1].name>>)
    IN  IF n = q THEN 0
        ELSE IF Len(n) >= Len(q) /\ [i \in 1..Len(q) |-> n[i]] = q THEN 1
        ELSE 2

\* a ranks strictly before b, and a ranks level with b
SearchKeyLess(a, b) ==
    \/ SearchTier(a) < SearchTier(b)
    \/ SearchTier(a) = SearchTier(b) /\ StrLess(ClaimLower(a.name), ClaimLower(b.name))
SearchKeyEq(a, b) ==
    SearchTier(a) = SearchTier(b) /\ ClaimLower(a.name) = ClaimLower(b.name)

\* the kinds searched, in the order of the reads
SearchedKinds ==
    IF call[1].entity_type = "all"
    THEN <<"person", "organisation", "location", "country">>
    ELSE <<call[1].entity_type>>

\* the hits of the reads, merged in the order of the reads: of each
\* searched table the first limit matches, each tagged with its kind
RECURSIVE MergedUpTo(_)
MergedUpTo(k) ==
    IF k = 0 THEN <<>>
    ELSE LET kind == SearchedKinds[k]
             rows == store[1].hits[kind]
             n == IF Len(rows) < call[1].limit THEN Len(rows) ELSE call[1].limit
         IN  MergedUpTo(k - 1) \o [i \in 1..n |-> [entity_type |-> kind] @@ rows[i]]

ClaimMerged == MergedUpTo(Len(SearchedKinds))

(* C26: entity search merges the hits of all searched kind tables into one
   list, ranks the list and then truncates: the returned entities are the
   first min(limit, number of merged hits) elements of the merged list in
   rank order (equal keys in merge order), and count is the number of
   entities returned. *)
C26_RankThenTruncate ==
    SearchReturned =>
        LET out == Body(response[1])
            merged == ClaimMerged
            n == IF Len(merged) < call[1].limit THEN Len(merged) ELSE call[1].limit
        IN  /\ Len(out.entities) = n
            /\ out.count = n
            /\ \E p \in PermutationsOf(Len(merged)) :
                   /\ \A i, j \in 1..Len(merged) :
                          i < j => \/ SearchKeyLess(merged[p[i]], merged[p[j]])
                                   \/ /\ SearchKeyEq(merged[p[i]], merged[p[j]])
                                      /\ p[i] < p[j]
                   /\ \A i \in 1..n : out.entities[i] = merged[p[i]]

\* three hits are merged in the order substring, prefix, exact; the limit of
\* 2 keeps the exact and the prefix match
C26_Witness ==
    /\ SearchReturned
    /\ call[1].entity_type = "all"
    /\ call[1].limit = 2
    /\ Len(ClaimMerged) = 3
    /\ ClaimMerged[1].name = <<StrCab>>
    /\ ClaimMerged[2].name = <<StrLowerAb>>
    /\ ClaimMerged[3].name = <<StrAbd>>
    /\ Body(response[1]).count = 2
    /\ Body(response[1]).entities[1].name = <<StrLowerAb>>
    /\ Body(response[1]).entities[2].name = <<StrAbd>>

(* C29 as stated: if any searched kind table holds an entity whose name
   equals the query case-insensitively, the first returned entity is a
   case-insensitive exact match, however many other matches the table holds
   and in whichever order the store returns them. *)
C29_Original ==
    (/\ SearchReturned
     /\ \E k \in DOMAIN SearchedKinds :
            \E i \in DOMAIN store[1].hits[SearchedKinds[k]] :
                ExactMatch(store[1].hits[SearchedKinds[k]][i])) =>
        /\ Body(response[1]).entities # <<>>
        /\ ExactMatch(Body(response[1]).entities[1])

\* what holds: an exact match among the rows the reads returned is first
C29_ExactAmongReadRowsFirst ==
    (SearchReturned /\ \E i \in DOMAIN ClaimMerged : ExactMatch(ClaimMerged[i])) =>
        /\ Body(response[1]).entities # <<>>
        /\ ExactMatch(Body(response[1]).entities[1])

\* the person table holds "abc" then "ab"; with limit 1 the read returns
\* "abc" only, and the exact match is not in the answer
C29_ExactMatchCut ==
    /\ SearchReturned
    /\ call[1].entity_type = "person"
    /\ call[1].limit = 1
    /\ Len(store[1].hits["person"]) = 2
    /\ store[1].hits["person"][1].name = <<StrAbc>>
    /\ store[1].hits["person"][2].name = <<StrLowerAb>>
    /\ Body(response[1]).count = 1
    /\ Body(response[1]).entities[1].name = <<StrAbc>>

-----------------------------------------------------------------------------
\* an invocation of a cloud tool, and the status it reported to the usage log
CloudCall == call # None /\ call[1].frontend = "cloud"
Recorded == trace[Len(trace)].what

\* the invocation returned a success payload
SuccessPayload == ~raised /\ response # None /\ ~IsError(response[1])

\* the primary record, the story or the entity, was read and is absent
PrimaryAbsent ==
    \/ /\ call[1].tool = "get_story_details"
       /\ 1 \notin store[1].fails
       /\ store[1].story = <<>>
    \/ EntityAbsent

\* the entity kind is not one the tool knows
KindUnknown ==
    \/ call[1].tool = "search_entities" /\ call[1].entity_type \notin SearchValidTypes
    \/ call[1].tool = "get_entity_context" /\ call[1].entity_type \notin ContextValidTypes

\* a store call, or the aggregation of the rows read, raised
StepRaised ==
    \/ FailedReads # {}
    \/ /\ call[1].tool = "get_signal_timeline"
       /\ TimelineRaises(store[1].data)

\* the rpc of trending stories raised and the story table answers the
\* fallback read
Recovered == FallbackTaken /\ 2 \notin store[1].fails

(* C27 as stated: the status recorded by the usage meter is "ok" exactly
   when a success payload is returned, "not_found" exactly when the primary
   record is absent, "invalid_type" exactly when the entity kind is unknown,
   and "error" exactly when a store read or other step raised; an error
   payload is never recorded as "ok". *)
C27_Original ==
    CloudCall =>
        /\ LogAttempts = {Len(trace)}
        /\ Recorded = "ok" <=> SuccessPayload
        /\ Recorded = "not_found" <=> PrimaryAbsent
        /\ Recorded = "invalid_type" <=> KindUnknown
        /\ Recorded = "error" <=> StepRaised
        /\ (response # None /\ IsError(response[1])) => Recorded # "ok"

(* C27: every cloud tool reports one status to the usage meter: "ok" exactly
   when a success payload is returned, "not_found" exactly when the primary
   record is absent, "invalid_type" exactly when the entity kind is unknown,
   and "error" exactly when the invocation ended in its except handler, which
   is when a store read or other step raised, except that a failed rpc of
   trending stories whose fallback read succeeds is recorded as "ok" with
   the success payload; an error payload is never recorded as "ok". *)
C27_StatusMatchesOutcome ==
    CloudCall =>
        /\ LogAttempts = {Len(trace)}
        /\ Recorded \in {"ok", "not_found", "invalid_type", "error"}
        /\ Recorded = "ok" <=> SuccessPayload
        /\ Recorded = "not_found" <=> PrimaryAbsent
        /\ Recorded = "invalid_type" <=> KindUnknown
        /\ Recorded = "error" <=> (StepRaised /\ ~Recovered)
        /\ Recovered => Recorded = "ok"
        /\ (response # None /\ IsError(response[1])) => Recorded # "ok"

\* the rpc raised, the fallback read returned rows, and the invocation is
\* recorded as "ok"
C27_Witness ==
    /\ CloudCall
    /\ Recovered
    /\ StepRaised
    /\ store[1].data # <<>>
    /\ Recorded = "ok"
    /\ SuccessPayload
    /\ response[1].stories = store[1].data

\* an absent story is recorded as "not_found" with an error payload
C27_NotFoundRecorded ==
    /\ CloudCall
    /\ call[1].tool = "get_story_details"
    /\ PrimaryAbsent
    /\ Recorded = "not_found"
    /\ response # None
    /\ IsError(response[1])

-----------------------------------------------------------------------------
\* the current time as the cloud tool server's clock writes it
NowIso == IsoFormat(NowHour, TRUE)

(* C28 as stated: for every cloud tool that takes hours, the lookback the
   cutoff is computed from is at least one hour: a call with hours <= 0
   never results in a store read whose cutoff is at or after the current
   time. *)
C28_Original ==
    (CloudCall /\ TakesHours /\ call[1].hours <= 0) =>
        \A c \in ReadCutoffs : StrLess(c, NowIso)

\* hours above zero do give a cutoff before the current time
C28_PositiveHoursLookBack ==
    (CloudCall /\ TakesHours /\ call[1].hours >= 1) =>
        \A c \in ReadCutoffs : StrLess(c, NowIso)

\* the briefing asked for with hours = -1 reads the articles published
\* after an hour from now
C28_FutureCutoff ==
    /\ CloudCall
    /\ call[1].tool = "get_latest_briefing"
    /\ call[1].hours = 0 - 1
    /\ ReadCutoffs = {IsoFormat(NowHour + 1, TRUE)}
    /\ StrLess(NowIso, IsoFormat(NowHour + 1, TRUE))

\* the briefing asked for with hours = 0 reads from the current time on
C28_ZeroLookback ==
    /\ CloudCall
    /\ call[1].tool = "get_latest_briefing"
    /\ call[1].hours = 0
    /\ ReadCutoffs = {NowIso}

-----------------------------------------------------------------------------
\* trending stories was asked of both front ends over the same store
BothCall == call # None /\ call[1].frontend = "both" /\ reference # None

\* the store calls of a trace, in order, without the usage-log inserts
IsStoreCall(e) == e.op \in {"read", "rpc"}
StoreCalls(tr) == SelectSeq(tr, IsStoreCall)

\* the two outcomes agree: both are errors, or both carry the same stories
SameStories(api, cloud) ==
    \/ IsError(api) /\ IsError(cloud)
    \/ /\ ~IsError(api) /\ ~IsError(cloud)
       /\ Body(api).stories = Body(cloud).stories

(* C30 as stated: for the same store contents, the same behaviour of the
   get_trending_stories rpc (rows, no rows, failure) and the same hours and
   limit, the route /stories/trending and the cloud tool get_trending_stories
   issue the same sequence of store reads and return the same stories list,
   or both return an error. *)
C30_Original ==
    BothCall =>
        /\ response # None /\ reference[1].response # None
        /\ StoreCalls(trace) = StoreCalls(reference[1].trace)
        /\ SameStories(response[1], reference[1].response[1])

\* what holds: the front ends agree when the rpc returns rows
C30_AgreeWhenRpcReturnsRows ==
    (BothCall /\ 1 \notin store[1].fails /\ store[1].rpc_data # <<>>) =>
        /\ response # None /\ reference[1].response # None
        /\ StoreCalls(trace) = StoreCalls(reference[1].trace)
        /\ StoreCalls(trace) = <<RpcEvent("get_trending_stories", TRUE)>>
        /\ SameStories(response[1], reference[1].response[1])
        /\ Body(response[1]).stories = store[1].rpc_data

\* the rpc fails: the route answers 500 after the one call, the cloud tool
\* reads the story table and returns its rows
C30_RpcFailureDiverges ==
    /\ BothCall
    /\ store[1].fails = {1}
    /\ store[1].data # <<>>
    /\ response # None
    /\ response[1].status_code = 500
    /\ Len(StoreCalls(trace)) = 1
    /\ Len(StoreCalls(reference[1].trace)) = 2
    /\ reference[1].response # None
    /\ ~IsError(reference[1].response[1])
    /\ reference[1].response[1].stories = store[1].data

\* the rpc returns no row: the route reads the story table and returns its
\* rows, the cloud tool returns the empty list after the one call
C30_EmptyRpcDiverges ==
    /\ BothCall
    /\ store[1].fails = {}
    /\ store[1].rpc_data = <<>>
    /\ store[1].data # <<>>
    /\ response # None
    /\ ~IsError(response[1])
    /\ Body(response[1]).stories = store[1].data
    /\ Len(StoreCalls(trace)) = 2
    /\ reference[1].response # None
    /\ reference[1].response[1].stories = <<>>
    /\ Len(StoreCalls(reference[1].trace)) = 1

-----------------------------------------------------------------------------
\* the outcome of the invocation run alone over the store: the handler from
\* entry to response with nothing in between
Alone(args, db) ==
    IF args.tool = "search_entities" THEN cloud_search_entities(args, db)
    ELSE api_get_signal_timeline(args, db)

\* the invocation has returned
Returned(t) == t \in DOMAIN threads /\ threads[t].pc = "done"

(* C25: concurrent invocations are independent: in every interleaving of
   the steps of two or more invocations over an unchanged store, each
   invocation that has returned issued the store calls it issues when run
   alone and returned the response it returns when run alone. *)
C25_InterleavedEqualsAlone ==
    \A t \in DOMAIN threads :
        Returned(t) =>
            /\ threads[t].response = Alone(threads[t].args, store[1]).response
            /\ threads[t].issued = Alone(threads[t].args, store[1]).trace

\* the search over one table ran from entry to return while the search over
\* all tables was between its second and its third read: it returned what it
\* returns alone, and its row is in the usage log
C25_Witness ==
    /\ Returned(2)
    /\ threads[2].args.tool = "search_entities"
    /\ threads[2].args.entity_type = "person"
    /\ threads[1].args.tool = "search_entities"
    /\ threads[1].args.entity_type = "all"
    /\ threads[1].pc = "read"
    /\ threads[1].k = 3
    /\ Len(threads[1].results) = 3
    /\ threads[2].results = <<[entity_type |-> "person", id |-> 1, name |-> Some(StrAbc)]>>
    /\ threads[2].response[1].count = 1
    /\ threads[2].response[1].entities[1].name = <<StrAbc>>
    /\ trace = <<LogEvent("search_entities", "ok", store[1].insert_ok)>>

\* both have returned, each what it returns alone, and the answers differ
C25_BothReturned ==
    /\ Returned(1) /\ Returned(2)
    /\ threads[1].args.tool = "search_entities"
    /\ threads[1].args.entity_type = "all"
    /\ threads[2].args.tool = "search_entities"
    /\ threads[2].args.entity_type = "person"
    /\ Len(threads[1].results) = 4
    /\ threads[1].response[1].count = 2
    /\ threads[1].response[1].entities[1].name = <<StrLowerAb>>
    /\ threads[1].response[1].entities[2].name = <<StrUpperAb>>
    /\ threads[2].response[1].count = 1
    /\ Len(trace) = 2

====
